---- MODULE Spec2Model ----
(***************************************************************************)
(* Dashboard service monitor: image-to-service-status pipeline, service    *)
(* resolver, capture-rectangle arithmetic, alert dispatch, camera manager, *)
(* monitoring GUI threads and the alert configuration form.                *)
(*                                                                         *)
(* Strings of the program are sequences of one-character strings, so that  *)
(* strip(), lower() and the comparisons act on characters as Python does.  *)
(***************************************************************************)
EXTENDS Integers, Sequences, FiniteSets, TLC

VARIABLES
    variant,        \* which DashboardMonitor runs: "modular" (dashboard_monitor.py) or "legacy" (monitor.py)
    config,         \* ConfigManager.config: [default_config, services (ordered dict)]
    email_ready,    \* AlertManager.email_sender and email_password are both set
    camera,         \* CameraManager.camera / DashboardMonitor.camera: "open" or "none"
    pc,             \* position of monitor() in its loop
    frame,          \* the captured image (None before the first capture and after a failed one)
    masks,          \* red and green mask returned by process_image
    down_services,  \* list returned by extract_text(image, red_mask)
    up_services,    \* list returned by extract_text(image, green_mask)
    di,             \* index of the next element of down_services to handle
    ui,             \* index of the next element of up_services to log
    log,            \* rows appended to the daily CSV by log_service_status
    alerts,         \* alert dispatch calls made so far
    cycle,          \* number of loop iterations that reached their time.sleep(60)
    waited,         \* argument of the last time.sleep of the loop (0: none yet)
    query,          \* argument of the last get_service_config call of the resolver harness
    result,         \* value that call returned
    prev,           \* the call before it
    calls,          \* number of resolver calls made by the harness
    blob,           \* capture-rectangle harness: frame size, bounding box, contour area
    rect,           \* capture rectangles computed for blob
    config_file,    \* service_config.json as it is on disk
    now,            \* clock harness: datetime.now() as [hour, minute]
    send_time,      \* clock harness: outcome of computing send_time from now
    hsv_image,      \* segmentation harness: the frame's pixels in HSV
    colour_masks,   \* segmentation harness: masks computed by cv2.inRange for hsv_image
    is_monitoring,  \* MonitoringGUI.is_monitoring
    threads,        \* position of each monitor_loop thread, in the order they were started
    clicks,         \* number of clicks on the Start/Stop button so far
    widget_writers, \* the threads that have configured or drawn on a widget
    update_queue,   \* items put on MonitoringGUI.update_queue
    ui_calls,       \* the UI thread called capture_frame on the monitor while a loop thread was alive
    wa_call,        \* WhatsApp harness: what one send_whatsapp_alert call did
    cm_camera,      \* CameraManager.camera: None or a VideoCapture object [id, opened]
    open_handles,   \* ids of the VideoCapture objects that hold a device open
    capture_result, \* what CameraManager.capture_frame returned, when it was the last call made
    created,        \* the VideoCapture objects initialize_camera has created: whether each one opened
    form            \* AlertConfigUI harness: the save_service call made and the registry before it

vars == <<variant, config, email_ready, camera, pc, frame, masks, down_services, up_services,
          di, ui, log, alerts, cycle, waited, query, result, prev, calls, blob, rect,
          config_file, now, send_time, hsv_image, colour_masks,
          is_monitoring, threads, clicks, widget_writers, update_queue, ui_calls,
          wa_call, cm_camera, open_handles, capture_result, created, form>>

pipelineVars == <<variant, email_ready, camera, pc, frame, masks, down_services, up_services,
                  di, ui, log, alerts, cycle, waited>>
resolverVars == <<query, result, prev, calls>>
rectVars == <<blob, rect>>
storeVars == <<config_file>>
clockVars == <<now, send_time>>
segmentVars == <<hsv_image, colour_masks>>
guiVars == <<is_monitoring, threads, clicks, widget_writers, update_queue, ui_calls>>
whatsappVars == <<wa_call>>
cameraVars == <<cm_camera, open_handles, capture_result, created>>
formVars == <<form>>

\* an optional value is a sequence of at most one element
None == <<>>
Some(v) == <<v>>

NoMasks == [red |-> <<>>, green |-> <<>>]

\* values of the harness variables in the specifications that do not use them
NoColourMasks == [red |-> None, green |-> None, orange |-> None]
Midnight == [hour |-> 0, minute |-> 0]
GuiIdle ==
    /\ is_monitoring = FALSE /\ threads = <<>> /\ clicks = 0
    /\ widget_writers = {} /\ update_queue = <<>> /\ ui_calls = FALSE
WhatsAppIdle == wa_call = None
CameraIdle ==
    /\ cm_camera = None /\ open_handles = {} /\ capture_result = "unset" /\ created = <<>>
FormIdle == form = None

----------------------------------------------------------------------------
(* Characters and strings *)

UpperChars == <<"A","B","C","D","E","F","G","H","I","J","K","L","M",
                "N","O","P","Q","R","S","T","U","V","W","X","Y","Z">>
LowerChars == <<"a","b","c","d","e","f","g","h","i","j","k","l","m",
                "n","o","p","q","r","s","t","u","v","w","x","y","z">>
DigitChars == {"0","1","2","3","4","5","6","7","8","9"}
Whitespace == {" ", "\n", "\t", "\r"}

SetMin(S) == CHOOSE m \in S : \A n \in S : m <= n
SetMax(S) == CHOOSE m \in S : \A n \in S : m >= n
Range(s) == {s[i] : i \in 1..Len(s)}

\* str.lower() on one character
LowerChar(c) ==
    IF \E i \in 1..Len(UpperChars) : UpperChars[i] = c
    THEN LowerChars[CHOOSE i \in 1..Len(UpperChars) : UpperChars[i] = c]
    ELSE c

\* str.lower()
StrLower(s) == [i \in 1..Len(s) |-> LowerChar(s[i])]

\* str.strip(): leading and trailing whitespace removed
StrStrip(s) ==
    LET keep == {i \in 1..Len(s) : s[i] \notin Whitespace}
    IN IF keep = {} THEN <<>> ELSE SubSeq(s, SetMin(keep), SetMax(keep))

\* a in b (Python substring test)
IsSubstring(a, b) ==
    \E i \in 0..(Len(b) - Len(a)) : SubSeq(b, i + 1, i + Len(a)) = a

\* sep.join(parts)
RECURSIVE StrJoin(_, _)
StrJoin(sep, parts) ==
    IF parts = <<>> THEN <<>>
    ELSE IF Len(parts) = 1 THEN parts[1]
    ELSE parts[1] \o sep \o StrJoin(sep, Tail(parts))

\* s.split('/')[-1]: the text after the last slash (all of s when it has none)
LastSegment(s) ==
    LET sl == {i \in 1..Len(s) : s[i] = "/"}
    IN IF sl = {} THEN s ELSE SubSeq(s, SetMax(sl) + 1, Len(s))

----------------------------------------------------------------------------
(* Sample texts *)

sECIS == <<"E","C","I","S">>
sEcisLower == <<"e","c","i","s">>
sECISLoans == <<"E","C","I","S"," ","L","o","a","n","s">>
sEC == <<"E","C">>
sBTSS == <<"B","T","S","S">>
sBTSSRaw == <<"B","T","S","S","!","!"," ","(","C","y","b","e","r","_","C","h","a","n","n","e","l",")">>
sBTSSKey == <<"b","t","s","s","c","y","b","e","r","c","h","a","n","n","e","l">>
sIVSS == <<"I","V","S","S","-","e","j","b">>
sXYZ == <<"X","Y","Z">>
sEmpty == <<>>
sBlank == <<" ", "\n">>
sECISPadded == <<" ","E","C","I","S","\n">>

sOps == <<"o","p","s","@","x">>
sPhone == <<"+","1","5","5","5">>
sGroupLink == <<"h","t","t","p","s",":","/","/","c","h","a","t","/","G","1">>

----------------------------------------------------------------------------
(* Bounds *)

\* most entries in a sampled services registry
MaxKeys == 2
\* most get_service_config calls of the resolver harness in one behaviour
MaxCalls == 3

----------------------------------------------------------------------------
(* ConfigManager *)

\* the default_config block written by load_config when no file exists
EmptyDefaultConfig == [email |-> <<>>, whatsapp |-> <<>>, whatsapp_groups |-> <<>>]

\* the registry load_config builds when service_config.json does not exist
DefaultRegistry == [default_config |-> EmptyDefaultConfig, services |-> <<>>]

\* service_config.json on disk: absent; holding the JSON text of a registry;
\* present but not JSON (json.load raises JSONDecodeError); present but not
\* readable (open raises OSError)
FileMissing == [kind |-> "missing", content |-> None]
FileValid(registry) == [kind |-> "valid", content |-> Some(registry)]
FileMalformed == [kind |-> "malformed", content |-> None]
FileUnreadable == [kind |-> "unreadable", content |-> None]

\* self.config before load_config has assigned it
NoConfig == [unset |-> TRUE]

\* a load_config that writes the registry back after reading it
load_config_rewriting(file) ==
    IF file.kind = "valid"
    THEN [raised |-> FALSE, config |-> file.content[1], file |-> FileValid(DefaultRegistry)]
    ELSE IF file.kind = "missing"
    THEN [raised |-> FALSE, config |-> DefaultRegistry, file |-> FileValid(DefaultRegistry)]
    ELSE [raised |-> TRUE, config |-> NoConfig, file |-> file]

\* ConfigManager.load_config: the file exists and parses: its registry; the file
\* does not exist: the default registry, which save_config writes to the file;
\* otherwise open or json.load raises and nothing is assigned
load_config(file) ==
    IF file.kind = "valid"
    THEN [raised |-> FALSE, config |-> file.content[1], file |-> file]
    ELSE IF file.kind = "missing"
    THEN [raised |-> FALSE, config |-> DefaultRegistry, file |-> FileValid(DefaultRegistry)]
    ELSE [raised |-> TRUE, config |-> NoConfig, file |-> file]

\* a default_config block with recipients, as saved by the configuration window
SampleDefaultConfig == [email |-> <<sOps>>, whatsapp |-> <<>>, whatsapp_groups |-> <<>>]

\* the configuration stored under a registry key in the sampled registries:
\* each key has its own mail recipient, so that two entries never look alike
ServiceCfg(key) ==
    [email |-> <<key \o <<"@","x">> >>, whatsapp |-> <<>>, whatsapp_groups |-> <<>>]

\* registry keys tried by the resolver harness
KeySamples == {sECIS, sEcisLower, sECISLoans, sEC, sBTSS, sBTSSKey, sIVSS}

\* names looked up by the resolver harness
NameSamples == {sECIS, sEcisLower, sECISLoans, sEC, sBTSSRaw, sBTSSKey, sXYZ}

\* a dict keeps insertion order and has no key twice
RECURSIVE KeyLists(_)
KeyLists(n) ==
    IF n = 0 THEN {<<>>}
    ELSE LET shorter == KeyLists(n - 1)
         IN shorter \cup {Append(l, k) : l \in {m \in shorter : Len(m) = n - 1},
                                          k \in KeySamples}

DistinctKeyLists(n) ==
    {l \in KeyLists(n) : \A i, j \in 1..Len(l) : i # j => l[i] # l[j]}

SampleRegistries ==
    {[default_config |-> SampleDefaultConfig,
      services |-> [i \in 1..Len(l) |-> [name |-> l[i], cfg |-> ServiceCfg(l[i])]]]
        : l \in DistinctKeyLists(MaxKeys)}

\* a resolver that also accepts a key containing the name or contained in it,
\* first such key in iteration order
get_service_config_substring(cfg, service_name) ==
    LET lower_service_name == StrLower(service_name)
        hits == {i \in 1..Len(cfg.services) :
                    \/ IsSubstring(lower_service_name, StrLower(cfg.services[i].name))
                    \/ IsSubstring(StrLower(cfg.services[i].name), lower_service_name)}
    IN IF hits = {} THEN cfg.default_config ELSE cfg.services[SetMin(hits)].cfg

\* a resolver that tries case-insensitive equality first and then falls back to
\* the first key containing the name or contained in it
get_service_config_fallback(cfg, service_name) ==
    LET lower_service_name == StrLower(service_name)
        exact == {i \in 1..Len(cfg.services) :
                    lower_service_name = StrLower(cfg.services[i].name)}
        near == {i \in 1..Len(cfg.services) :
                    \/ IsSubstring(lower_service_name, StrLower(cfg.services[i].name))
                    \/ IsSubstring(StrLower(cfg.services[i].name), lower_service_name)}
    IN IF exact # {} THEN cfg.services[SetMin(exact)].cfg
       ELSE IF near # {} THEN cfg.services[SetMin(near)].cfg
       ELSE cfg.default_config

\* a resolver that compares without lowercasing
get_service_config_case_sensitive(cfg, service_name) ==
    LET hits == {i \in 1..Len(cfg.services) : service_name = cfg.services[i].name}
    IN IF hits = {} THEN cfg.default_config ELSE cfg.services[SetMin(hits)].cfg

\* a resolver that returns an empty configuration for a name it does not find
get_service_config_no_default(cfg, service_name) ==
    LET hits == {i \in 1..Len(cfg.services) :
                    StrLower(service_name) = StrLower(cfg.services[i].name)}
    IN IF hits = {} THEN EmptyDefaultConfig ELSE cfg.services[SetMin(hits)].cfg

\* ConfigManager.get_service_config: the value returned
get_service_config(cfg, service_name) ==
    LET lower_service_name == StrLower(service_name)
        hits == {i \in 1..Len(cfg.services) :
                    lower_service_name = StrLower(cfg.services[i].name)}
    IN IF hits = {} THEN cfg.default_config ELSE cfg.services[SetMin(hits)].cfg

----------------------------------------------------------------------------
(* Resolver harness: get_service_config called on sampled names *)

NoCall == [q |-> None, r |-> None]

\* a lookup that registers the name it did not find
GetServiceConfigCall_registering(name) ==
    /\ calls < MaxCalls
    /\ prev' = [q |-> query, r |-> result]
    /\ query' = Some(name)
    /\ result' = Some(get_service_config(config, name))
    /\ calls' = calls + 1
    /\ config' = IF result'[1] = config.default_config
                 THEN [config EXCEPT !.services =
                          Append(@, [name |-> name, cfg |-> EmptyDefaultConfig])]
                 ELSE config
    /\ UNCHANGED <<pipelineVars, rectVars, storeVars, clockVars, segmentVars,
                   guiVars, whatsappVars, cameraVars, formVars>>

\* one call of ConfigManager.get_service_config(name)
GetServiceConfigCall(name) ==
    /\ calls < MaxCalls
    /\ prev' = [q |-> query, r |-> result]
    /\ query' = Some(name)
    /\ result' = Some(get_service_config(config, name))
    /\ calls' = calls + 1
    /\ UNCHANGED <<config, pipelineVars, rectVars, storeVars, clockVars, segmentVars,
                   guiVars, whatsappVars, cameraVars, formVars>>

----------------------------------------------------------------------------
(* ImageProcessor: capture rectangles *)

\* extract_text pads the bounding box by 100 px on the left and right
PadX == 100
\* and by 20 px above and below
PadY == 20
\* extract_text reads a contour whose area is greater than this
NoiseArea == 100
\* detect_services skips a contour whose area is less than this
CircleMinArea == 50

IMax(a, b) == IF a >= b THEN a ELSE b
IMin(a, b) == IF a <= b THEN a ELSE b

\* the largest power of two that is at most n (n >= 1)
RECURSIVE Pow2Floor(_)
Pow2Floor(n) == IF n < 2 THEN 1 ELSE 2 * Pow2Floor(n \div 2)

\* int(w * 1.4) in IEEE double arithmetic. The double nearest to 1.4 lies
\* 0.4 * 2^-52 below it, so for w = 5k the product 7k - 2k * 2^-52 rounds to
\* 7k only when 2k * 2^-52 is at most half an ulp of 7k, that is 4k <= 2^e
\* with 2^e the largest power of two not above 7k; otherwise it rounds to the
\* double below 7k and int() gives 7k - 1. For other w the fraction is at least
\* 0.2 and the rounding cannot cross an integer.
IntTimes1p4(w) ==
    IF w > 0 /\ w % 5 = 0 /\ 4 * (w \div 5) > Pow2Floor(7 * (w \div 5))
    THEN 7 * (w \div 5) - 1
    ELSE (w * 14) \div 10

\* 0.9 <= float(w) / h <= 1.1 (both literals are the doubles nearest to 9/10 and 11/10)
AspectIsCircle(w, h) == 9 * h <= 10 * w /\ 10 * w <= 11 * h

\* extract_text whose slice forgets the clamps
ExtractTextRect_unclamped(x, y, w, h, W, H) ==
    [x1 |-> x - PadX, y1 |-> y - PadY, x2 |-> x + w + PadX, y2 |-> y + h + PadY]

\* the slice image[y1:y2, x1:x2] taken by extract_text
ExtractTextRect(x, y, w, h, W, H) ==
    [x1 |-> IMax(0, x - PadX), y1 |-> IMax(0, y - PadY),
     x2 |-> IMin(W, x + w + PadX), y2 |-> IMin(H, y + h + PadY)]

\* the rectangle detect_services computes around a dot, before the clamps
DetectServicesRaw(x, y, w, h) ==
    LET rectangle_width == IntTimes1p4(w)
        rectangle_height == h * 2
        x1 == x + (w \div 2) - (rectangle_width \div 2)
        y1 == y
    IN [x1 |-> x1, y1 |-> y1, x2 |-> x1 + rectangle_width, y2 |-> y1 + rectangle_height]

\* the rectangle cropped by detect_services
DetectServicesRect(x, y, w, h, W, H) ==
    LET r == DetectServicesRaw(x, y, w, h)
    IN [x1 |-> IMax(0, r.x1), y1 |-> IMax(0, r.y1),
        x2 |-> IMin(W, r.x2), y2 |-> IMin(H, r.y2)]

\* roi.size == 0
RoiIsEmpty(r) == r.x2 <= r.x1 \/ r.y2 <= r.y1

----------------------------------------------------------------------------
(* Capture-rectangle harness: one contour of one frame *)

\* how far around each landmark (frame edge, pad distance) coordinates are sampled
MaxOff == 1

Offsets == 0..MaxOff

\* frame sizes: smaller than the pads, between one and two pads, wider than both
FrameSizes ==
    {[W |-> 1 + d, H |-> 1 + d] : d \in Offsets}
    \cup {[W |-> PadX + PadY + d, H |-> PadY + PadY - 1 + d] : d \in Offsets}
    \cup {[W |-> 3 * PadX + d, H |-> 5 * PadY + d] : d \in Offsets}

\* coordinates of an axis of length L near its ends and near the places where
\* a pad of the given size starts and stops being clamped
Landmarks(L, pad) ==
    {c \in 0..L : \E d \in Offsets :
        \/ c = d \/ c = L - d
        \/ c = pad - d \/ c = pad + d \/ c = L - pad - d \/ c = L - pad + d}

\* pairs (start, end) of an axis of length L with start < end
Spans(L, pad) == {sp \in Landmarks(L, pad) \X Landmarks(L, pad) : sp[1] < sp[2]}

\* bounding boxes that lie inside the frame f
BlobsIn(f) ==
    {[W |-> f.W, H |-> f.H, x |-> xs[1], y |-> ys[1],
      w |-> xs[2] - xs[1], h |-> ys[2] - ys[1]] :
        xs \in Spans(f.W, PadX), ys \in Spans(f.H, PadY)}

\* indicator dots: nearly square boxes, at the frame's corner and away from its
\* edges; 45 is the first width whose product with 1.4 rounds below 63
DotSizes == {9 + d : d \in Offsets} \cup {PadY + d : d \in Offsets} \cup {45 + d : d \in Offsets}

DotBlobs ==
    {[W |-> 3 * PadX, H |-> 5 * PadY, x |-> xa, y |-> ya, w |-> sz, h |-> sz + e] :
        xa \in {0, PadX}, ya \in {0, PadY \div 2}, sz \in DotSizes, e \in {0, 1}}

SampleBlobs == UNION {BlobsIn(f) : f \in FrameSizes} \cup DotBlobs

\* contour areas tried: below both filters, between them, above both
AreaSamples == {0, CircleMinArea - 1, CircleMinArea, NoiseArea, NoiseArea + 1}

\* cv2.contourArea of a contour with a w x h bounding box is at most (w-1)(h-1)
AreaFits(area, b) == area <= (b.w - 1) * (b.h - 1)

\* rect.text, rect.dot: the rectangle cropped for the contour, if it was read;
\* rect.text_area, rect.dot_area: the contour area each loop body was given
NoRect == [text |-> None, dot |-> None, text_area |-> None, dot_area |-> None]

\* extract_text, loop body for one contour, up to the crop
ExtractTextRegion(area) ==
    /\ rect.text_area = None
    /\ AreaFits(area, blob)
    /\ rect' = [rect EXCEPT
                  !.text_area = Some(area),
                  !.text = IF area > NoiseArea
                           THEN Some(ExtractTextRect(blob.x, blob.y, blob.w,
                                                     blob.h, blob.W, blob.H))
                           ELSE None]
    /\ UNCHANGED <<blob, config, pipelineVars, resolverVars, storeVars, clockVars, segmentVars,
                   guiVars, whatsappVars, cameraVars, formVars>>

\* a circle filter whose minimum area is the noise filter's
CircleFilter_strict(area, w, h) == area > NoiseArea /\ AspectIsCircle(w, h)

\* detect_services: the contour is not skipped as noise and its bounding box
\* is nearly square
CircleFilter(area, w, h) == ~(area < CircleMinArea) /\ AspectIsCircle(w, h)

\* detect_services, loop body for one contour, up to the crop
DetectServicesRegion(area) ==
    /\ rect.dot_area = None
    /\ AreaFits(area, blob)
    /\ rect' = [rect EXCEPT
                  !.dot_area = Some(area),
                  !.dot = IF CircleFilter(area, blob.w, blob.h)
                          THEN Some(DetectServicesRect(blob.x, blob.y, blob.w,
                                                       blob.h, blob.W, blob.H))
                          ELSE None]
    /\ UNCHANGED <<blob, config, pipelineVars, resolverVars, storeVars, clockVars, segmentVars,
                   guiVars, whatsappVars, cameraVars, formVars>>

InitRect ==
    /\ blob \in SampleBlobs
    /\ rect = NoRect
    /\ config = [default_config |-> EmptyDefaultConfig, services |-> <<>>]
    /\ variant = "modular" /\ email_ready = FALSE /\ camera = "none" /\ pc = "idle"
    /\ frame = None /\ masks = NoMasks /\ down_services = <<>> /\ up_services = <<>>
    /\ di = 1 /\ ui = 1 /\ log = <<>> /\ alerts = <<>> /\ cycle = 0 /\ waited = 0
    /\ query = None /\ result = None /\ prev = NoCall /\ calls = 0
    /\ config_file = FileValid(config)
    /\ now = Midnight /\ send_time = None /\ hsv_image = <<>> /\ colour_masks = NoColourMasks
    /\ GuiIdle /\ WhatsAppIdle /\ CameraIdle /\ FormIdle

NextRect ==
    \/ \E area \in AreaSamples : ExtractTextRegion(area)
    \/ \E area \in AreaSamples : DetectServicesRegion(area)

SpecRect == InitRect /\ [][NextRect]_vars

InFrame(r, b) ==
    /\ 0 <= r.x1 /\ r.x1 < r.x2 /\ r.x2 <= b.W
    /\ 0 <= r.y1 /\ r.y1 < r.y2 /\ r.y2 <= b.H

\* C1: for every bounding box inside the frame, the rectangle cropped by
\* extract_text and the one cropped by detect_services satisfy
\* 0 <= x1 < x2 <= W and 0 <= y1 < y2 <= H, both as the formulas give them for
\* the box and as the loop bodies recorded them for the contours they accepted.
C1_CaptureRectInFrame ==
    /\ InFrame(ExtractTextRect(blob.x, blob.y, blob.w, blob.h, blob.W, blob.H), blob)
    /\ InFrame(DetectServicesRect(blob.x, blob.y, blob.w, blob.h, blob.W, blob.H), blob)
    /\ rect.text # None => InFrame(rect.text[1], blob) /\ ~RoiIsEmpty(rect.text[1])
    /\ rect.dot # None => InFrame(rect.dot[1], blob)

\* C1 witness: both variants have cropped a contour whose padded box sticks out
\* of the frame on the left and at the bottom, and were clamped there.
C1_Witness ==
    /\ rect.text # None /\ rect.dot # None
    /\ blob.x - PadX < 0 /\ rect.text[1].x1 = 0
    /\ blob.y + blob.h + PadY > blob.H /\ rect.text[1].y2 = blob.H
    /\ blob.y + 2 * blob.h > blob.H /\ rect.dot[1].y2 = blob.H

----------------------------------------------------------------------------
(* Resolver harness: specification and properties *)

InitResolve ==
    /\ config \in SampleRegistries
    /\ query = None /\ result = None /\ prev = NoCall /\ calls = 0
    /\ blob = [W |-> 1, H |-> 1, x |-> 0, y |-> 0, w |-> 1, h |-> 1] /\ rect = NoRect
    /\ variant = "modular" /\ email_ready = FALSE /\ camera = "none" /\ pc = "idle"
    /\ frame = None /\ masks = NoMasks /\ down_services = <<>> /\ up_services = <<>>
    /\ di = 1 /\ ui = 1 /\ log = <<>> /\ alerts = <<>> /\ cycle = 0 /\ waited = 0
    /\ config_file = FileValid(config)
    /\ now = Midnight /\ send_time = None /\ hsv_image = <<>> /\ colour_masks = NoColourMasks
    /\ GuiIdle /\ WhatsAppIdle /\ CameraIdle /\ FormIdle

NextResolve == \E name \in NameSamples : GetServiceConfigCall(name)

SpecResolve == InitResolve /\ [][NextResolve]_vars

\* registry positions whose key equals the name case-insensitively
EqualKeys(cfg, name) ==
    {i \in 1..Len(cfg.services) : StrLower(cfg.services[i].name) = StrLower(name)}

\* registry positions whose key contains the lowercased name or is contained in it
SubstringKeys(cfg, name) ==
    {i \in 1..Len(cfg.services) :
        \/ IsSubstring(StrLower(name), StrLower(cfg.services[i].name))
        \/ IsSubstring(StrLower(cfg.services[i].name), StrLower(name))}

\* C6: if some registry key equals the name case-insensitively, the resolver
\* returns the configuration stored under such a key, also when a key that
\* contains the name or is contained in it comes earlier in the registry.
C6_ExactMatchWins ==
    (query # None /\ EqualKeys(config, query[1]) # {})
        => \E i \in EqualKeys(config, query[1]) : result[1] = config.services[i].cfg

\* C6 witness: the looked-up name equals the second key case-insensitively, the
\* first key is only a substring relative of it, and the second key's
\* configuration was returned.
C6_Witness ==
    /\ query # None /\ Len(config.services) = 2
    /\ 2 \in EqualKeys(config, query[1])
    /\ 1 \in SubstringKeys(config, query[1]) \ EqualKeys(config, query[1])
    /\ result[1] = config.services[2].cfg

\* C7 as stated: with no case-insensitively equal key but some key that contains
\* the name or is contained in it, the first such key's configuration is returned.
C7_SubstringFallback ==
    (query # None /\ EqualKeys(config, query[1]) = {}
                  /\ SubstringKeys(config, query[1]) # {})
        => result[1] = config.services[SetMin(SubstringKeys(config, query[1]))].cfg

\* C7 amended: when no registry key equals the name case-insensitively the
\* resolver returns the default configuration, also when some key contains the
\* name or is contained in it.
C7_NoSubstringFallback ==
    (query # None /\ EqualKeys(config, query[1]) = {})
        => result[1] = config.default_config

\* C7 witness: a name with a substring relative in the registry but no equal key
\* was resolved to the default configuration.
C7_Witness ==
    /\ query # None
    /\ EqualKeys(config, query[1]) = {}
    /\ SubstringKeys(config, query[1]) # {}
    /\ result[1] = config.default_config

\* the normalisation the specification describes: lowercase, then drop every
\* character outside [a-z0-9-]
Normalize(s) ==
    SelectSeq(StrLower(s),
              LAMBDA c : c \in Range(LowerChars) \cup DigitChars \cup {"-"})

\* C8 as stated: two names with the same normalised key resolve to the same
\* registry entry.
C8_NormalizedNamesAgree ==
    (prev.q # None /\ query # None /\ Normalize(prev.q[1]) = Normalize(query[1]))
        => prev.r = result

\* C8 amended: the resolver only lowercases the name and removes no character:
\* two names that differ only in case resolve to the same entry, and an entry
\* is returned only when the whole lowercased name equals the lowercased key.
C8_CaseFoldingOnly ==
    /\ (prev.q # None /\ query # None /\ StrLower(prev.q[1]) = StrLower(query[1]))
            => prev.r = result
    /\ (query # None /\ result[1] # config.default_config)
            => \E i \in 1..Len(config.services) :
                    /\ result[1] = config.services[i].cfg
                    /\ Len(config.services[i].name) = Len(query[1])
                    /\ \A j \in 1..Len(query[1]) :
                            LowerChar(query[1][j]) = LowerChar(config.services[i].name[j])

\* C8 witness: two successive lookups of names that differ only in case both
\* returned the entry of the key they equal case-insensitively.
C8_Witness ==
    /\ prev.q # None /\ query # None
    /\ prev.q # query /\ StrLower(prev.q[1]) = StrLower(query[1])
    /\ prev.r = result /\ result[1] # config.default_config

\* C9: a get_service_config call leaves the registry as it was, and a call with
\* the same name as the call before it returns the same configuration.
C9_ResolveIdempotentReadOnly ==
    [][calls' = calls + 1 =>
            /\ config' = config
            /\ (query' = query => result' = result)]_vars

\* C9 witness: the same name was resolved twice in succession, with the same
\* result, once to a registry entry.
C9_Witness ==
    /\ calls >= 2 /\ query # None /\ prev.q = query /\ prev.r = result
    /\ result[1] # config.default_config

----------------------------------------------------------------------------
(* ImageProcessor: colour masks and text extraction *)

\* HSV thresholds set by ImageProcessor.__init__ (and by monitor.py's DashboardMonitor)
red_lower == <<0, 120, 70>>
red_upper == <<10, 255, 255>>
green_lower == <<35, 120, 70>>
green_upper == <<85, 255, 255>>

orange_lower == <<10, 100, 100>>
orange_upper == <<25, 255, 255>>

\* an inRange whose upper bounds are exclusive
InRange_exclusive(hsv, lower, upper) ==
    \A c \in 1..3 : lower[c] <= hsv[c] /\ hsv[c] < upper[c]

\* cv2.inRange on one pixel
InRange(hsv, lower, upper) ==
    \A c \in 1..3 : lower[c] <= hsv[c] /\ hsv[c] <= upper[c]

\* A frame is a record [W, H, blobs]; a blob is a connected patch of one colour:
\* [hsv, area, x, y, w, h, ocr], ocr being what pytesseract returns for the
\* rectangle cropped around it. The contours of a mask are the blobs whose
\* colour is in the mask's range, in the order findContours lists them.
Contours(img, lower, upper) ==
    SelectSeq(img.blobs, LAMBDA b : InRange(b.hsv, lower, upper))

\* process_image with the two masks exchanged
process_image_swapped(img) ==
    [red |-> Contours(img, green_lower, green_upper),
     green |-> Contours(img, red_lower, red_upper)]

\* process_image: the red and the green mask of the frame
process_image(img) ==
    [red |-> Contours(img, red_lower, red_upper),
     green |-> Contours(img, green_lower, green_upper)]

\* extract_text without the test that drops an empty text
extract_text_keep_empty(img, mask, checks_roi) ==
    LET read == SelectSeq(mask, LAMBDA b : b.area > NoiseArea)
    IN [i \in 1..Len(read) |-> StrStrip(read[i].ocr)]

\* extract_text(image, mask): the stripped, non-empty texts read near the
\* contours of the mask whose area is above 100; dashboard_monitor.py's version
\* also skips a contour whose crop is empty (checks_roi)
extract_text(img, mask, checks_roi) ==
    LET read == SelectSeq(mask, LAMBDA b :
                    /\ b.area > NoiseArea
                    /\ ~(checks_roi /\ RoiIsEmpty(ExtractTextRect(b.x, b.y, b.w, b.h,
                                                                  img.W, img.H)))
                    /\ StrStrip(b.ocr) # <<>>)
    IN [i \in 1..Len(read) |-> StrStrip(read[i].ocr)]

\* extract_text(image, mask) raises: pytesseract.image_to_string is called with no
\* handler around it, for each contour that passes the area and crop tests
extract_text_raises(img, mask, checks_roi) ==
    \E i \in 1..Len(mask) :
        /\ mask[i].area > NoiseArea
        /\ ~(checks_roi /\ RoiIsEmpty(ExtractTextRect(mask[i].x, mask[i].y, mask[i].w,
                                                      mask[i].h, img.W, img.H)))
        /\ mask[i].ocr_raises

----------------------------------------------------------------------------
(* ImageProcessor: the masks pixel by pixel *)

\* value cv2.inRange writes for a pixel inside the range (0 outside)
MaskSet == 255
\* largest value of an 8-bit channel
ChannelMax == 255

\* cv2.inRange(hsv, lower, upper): one mask value per pixel
MaskOf(img, lower, upper) ==
    [i \in 1..Len(img) |-> IF InRange(img[i], lower, upper) THEN MaskSet ELSE 0]

\* most pixels in a sampled frame of the segmentation harness
MaxPixels == 2

\* channel values on both sides of every threshold, and the ends of the range
HueSamples == {0, 5, 9, 10, 11, 25, 26, 34, 35, 85, 86, 179, ChannelMax}
SatSamples == {0, 99, 100, 119, 120, ChannelMax}
ValSamples == {0, 69, 70, 99, 100, ChannelMax}
PixelSamples == HueSamples \X SatSamples \X ValSamples

\* pixels that follow the first one in a sampled frame: in no range, in the red
\* and the orange range, in the green range
TailPixels == {<<0, 0, 0>>, <<10, 120, 100>>, <<60, ChannelMax, ChannelMax>>}

RECURSIVE PixelFrames(_)
PixelFrames(n) ==
    IF n = 1 THEN {<<p>> : p \in PixelSamples}
    ELSE LET shorter == PixelFrames(n - 1)
         IN shorter \cup {Append(f, q) : f \in {g \in shorter : Len(g) = n - 1},
                                          q \in TailPixels}

\* process_image: red_mask and green_mask of the frame
ProcessImageMasks ==
    /\ colour_masks.red = None
    /\ colour_masks' = [colour_masks EXCEPT
                            !.red = Some(MaskOf(hsv_image, red_lower, red_upper)),
                            !.green = Some(MaskOf(hsv_image, green_lower, green_upper))]
    /\ UNCHANGED <<hsv_image, config, pipelineVars, resolverVars, rectVars, storeVars,
                   clockVars,
                   guiVars, whatsappVars, cameraVars, formVars>>

\* detect_services: mask_orange of the frame
DetectServicesMask ==
    /\ colour_masks.orange = None
    /\ colour_masks' = [colour_masks EXCEPT
                            !.orange = Some(MaskOf(hsv_image, orange_lower, orange_upper))]
    /\ UNCHANGED <<hsv_image, config, pipelineVars, resolverVars, rectVars, storeVars,
                   clockVars,
                   guiVars, whatsappVars, cameraVars, formVars>>

InitSegment ==
    /\ hsv_image \in PixelFrames(MaxPixels)
    /\ colour_masks = NoColourMasks
    /\ config = DefaultRegistry /\ config_file = FileValid(config)
    /\ variant = "modular" /\ email_ready = FALSE /\ camera = "none" /\ pc = "idle"
    /\ frame = None /\ masks = NoMasks /\ down_services = <<>> /\ up_services = <<>>
    /\ di = 1 /\ ui = 1 /\ log = <<>> /\ alerts = <<>> /\ cycle = 0 /\ waited = 0
    /\ query = None /\ result = None /\ prev = [q |-> None, r |-> None] /\ calls = 0
    /\ blob = [W |-> 1, H |-> 1, x |-> 0, y |-> 0, w |-> 1, h |-> 1]
    /\ rect = NoRect
    /\ now = Midnight /\ send_time = None
    /\ GuiIdle /\ WhatsAppIdle /\ CameraIdle /\ FormIdle

NextSegment ==
    \/ ProcessImageMasks
    \/ DetectServicesMask

SpecSegment == InitSegment /\ [][NextSegment]_vars

\* every mask that was computed has one value, 0 or 255, per pixel of the frame
MasksWellFormed ==
    \A m \in {colour_masks.red, colour_masks.green, colour_masks.orange} :
        m # None => /\ Len(m[1]) = Len(hsv_image)
                    /\ \A i \in 1..Len(m[1]) : m[1][i] \in {0, MaskSet}

\* the thresholds of the three colour classes as the claim gives them, for the
\* masks that were computed
ThresholdsAsStated ==
    \A i \in 1..Len(hsv_image) :
        LET h == hsv_image[i][1]
            s == hsv_image[i][2]
            v == hsv_image[i][3]
        IN /\ colour_masks.red # None =>
                 (colour_masks.red[1][i] # 0 <=> (0 <= h /\ h <= 10 /\ s >= 120 /\ v >= 70))
           /\ colour_masks.green # None =>
                 (colour_masks.green[1][i] # 0 <=> (35 <= h /\ h <= 85 /\ s >= 120 /\ v >= 70))
           /\ colour_masks.orange # None =>
                 (colour_masks.orange[1][i] # 0 <=> (10 <= h /\ h <= 25 /\ s >= 100 /\ v >= 100))

\* no pixel of the frame is in the red, the green or the orange range
NoPixelInRange ==
    \A i \in 1..Len(hsv_image) :
        LET h == hsv_image[i][1]
            s == hsv_image[i][2]
            v == hsv_image[i][3]
        IN ~(0 <= h /\ h <= 10 /\ s >= 120 /\ v >= 70)
           /\ ~(35 <= h /\ h <= 85 /\ s >= 120 /\ v >= 70)
           /\ ~(10 <= h /\ h <= 25 /\ s >= 100 /\ v >= 100)

AllZero(m) == \A i \in 1..Len(m) : m[i] = 0

\* C16 as stated: the masks follow the stated thresholds, and the segmentation
\* of a frame by process_image produces all three masks, all-zero when no pixel
\* is in any range.
C16_ThreeMasksProduced ==
    /\ MasksWellFormed /\ ThresholdsAsStated
    /\ colour_masks.red # None =>
          /\ colour_masks.green # None /\ colour_masks.orange # None
          /\ NoPixelInRange => /\ AllZero(colour_masks.red[1])
                                /\ AllZero(colour_masks.green[1])
                                /\ AllZero(colour_masks.orange[1])

\* C16 amended: the masks follow the stated thresholds pixel by pixel;
\* process_image produces the red and the green mask together and no orange
\* mask; the orange mask is the one detect_services computes; and every mask
\* computed for a frame with no pixel in any range is all-zero.
C16_MasksFollowThresholds ==
    /\ MasksWellFormed /\ ThresholdsAsStated
    /\ colour_masks.red # None <=> colour_masks.green # None
    /\ NoPixelInRange =>
          \A m \in {colour_masks.red, colour_masks.green, colour_masks.orange} :
              m # None => AllZero(m[1])

\* C16 witness: process_image has segmented a two-pixel frame whose first pixel
\* lies on the upper hue bound of red and on the lower bounds of saturation and
\* value, and whose second pixel is in no range: the red mask has the first
\* pixel only, the green mask is all-zero, and there is no orange mask.
C16_Witness ==
    /\ hsv_image = << <<10, 120, 70>>, <<0, 0, 0>> >>
    /\ colour_masks.red = Some(<<MaskSet, 0>>)
    /\ colour_masks.green = Some(<<0, 0>>)
    /\ colour_masks.orange = None

----------------------------------------------------------------------------
(* AlertManager *)

\* datetime.replace accepts minutes 0..59 only
MaxMinute == 59
\* send_whatsapp_alert schedules the message this many minutes ahead
LeadMinutes == 2
\* time.sleep after a failed capture, seconds
BackoffDelay == 5
\* time.sleep at the end of a cycle, seconds
CycleDelay == 60

sCommaSpace == <<",", " ">>
sGroupPrefix == <<"g","r","o","u","p",":">>

\* the row log_service_status appends; ts stands for the timestamp column and
\* holds the number of the cycle that wrote the row
LogRow(ts, service_name, status, alert_sent, alert_type, recipients) ==
    [ts |-> ts, service |-> service_name, status |-> status, alert_sent |-> alert_sent,
     alert_type |-> alert_type, recipients |-> StrJoin(sCommaSpace, recipients)]

\* current_time.replace(minute=current_time.minute + 2) raises ValueError
SendTimeRaises(minute) == minute + LeadMinutes > MaxMinute

\* whether the replace raises, over every minute the clock can show
SendTimeOutcomes == {SendTimeRaises(minute) : minute \in 0..MaxMinute}

\* last hour of the day
MaxHour == 23

\* lines 40-41 of send_whatsapp_alert for current_time = t: replace keeps the
\* hour and sets the minute, and raises ValueError for a minute above 59
compute_send_time(t) ==
    IF SendTimeRaises(t.minute)
    THEN [raised |-> TRUE, at |-> None]
    ELSE [raised |-> FALSE,
          at |-> Some([hour |-> t.hour, minute |-> t.minute + LeadMinutes])]

\* send_whatsapp_alert reads the clock and computes send_time
ComputeSendTime ==
    /\ send_time = None
    /\ send_time' = Some(compute_send_time(now))
    /\ UNCHANGED <<now, config, pipelineVars, resolverVars, rectVars, storeVars,
                   segmentVars,
                   guiVars, whatsappVars, cameraVars, formVars>>

InitClock ==
    /\ now \in [hour : 0..MaxHour, minute : 0..MaxMinute]
    /\ send_time = None
    /\ config = DefaultRegistry /\ config_file = FileValid(config)
    /\ variant = "modular" /\ email_ready = FALSE /\ camera = "none" /\ pc = "idle"
    /\ frame = None /\ masks = NoMasks /\ down_services = <<>> /\ up_services = <<>>
    /\ di = 1 /\ ui = 1 /\ log = <<>> /\ alerts = <<>> /\ cycle = 0 /\ waited = 0
    /\ query = None /\ result = None /\ prev = [q |-> None, r |-> None] /\ calls = 0
    /\ blob = [W |-> 1, H |-> 1, x |-> 0, y |-> 0, w |-> 1, h |-> 1]
    /\ rect = NoRect
    /\ hsv_image = <<>> /\ colour_masks = NoColourMasks
    /\ GuiIdle /\ WhatsAppIdle /\ CameraIdle /\ FormIdle

NextClock == ComputeSendTime

SpecClock == InitClock /\ [][NextClock]_vars

\* the time of day two minutes after t, as [hour, minute]
TwoMinutesAfter(t) ==
    LET m == (t.hour * 60 + t.minute + 2) % ((MaxHour + 1) * 60)
    IN [hour |-> m \div 60, minute |-> m % 60]

\* C19 as stated: for every hour and minute of the clock, send_whatsapp_alert
\* computes without raising a valid delivery time exactly two minutes after
\* the current time, carrying into the next hour at minute 58 and 59.
C19_SendTimeTwoMinutesAhead ==
    send_time # None =>
        /\ ~send_time[1].raised
        /\ send_time[1].at = Some(TwoMinutesAfter(now))

\* rows appended by send_email_alert(service_name, cfg); smtp_ok: the SMTP
\* session succeeded. monitor.py's version has no test for an empty recipient
\* list: it logs a row with no recipients, and the send cannot succeed
EmailRows(ts, service_name, cfg, smtp_ok) ==
    IF ~email_ready THEN <<>>
    ELSE IF variant = "modular" /\ cfg.email = <<>> THEN <<>>
    ELSE <<LogRow(ts, service_name, "DOWN", smtp_ok /\ cfg.email # <<>>, "Email", cfg.email)>>

\* positions of cfg.whatsapp that are not blank
Sendable(cfg) == {i \in 1..Len(cfg.whatsapp) : StrStrip(cfg.whatsapp[i]) # <<>>}

\* recipients list built by send_whatsapp_alert when the sends to the numbers
\* at positions okN and to the groups at positions okG succeed
WhatsAppRecipients(cfg, okN, okG) ==
    LET nums == SelectSeq([i \in 1..Len(cfg.whatsapp) |-> [i |-> i, v |-> cfg.whatsapp[i]]],
                          LAMBDA e : e.i \in okN)
        grps == SelectSeq([i \in 1..Len(cfg.whatsapp_groups) |->
                               [i |-> i, v |-> sGroupPrefix \o LastSegment(cfg.whatsapp_groups[i])]],
                          LAMBDA e : e.i \in okG)
    IN [i \in 1..Len(nums) |-> nums[i].v] \o [i \in 1..Len(grps) |-> grps[i].v]

\* row appended by send_whatsapp_alert when it does not raise
WhatsAppRows(ts, service_name, cfg, okN, okG) ==
    <<LogRow(ts, service_name, "DOWN", okN \cup okG # {}, "WhatsApp",
             WhatsAppRecipients(cfg, okN, okG))>>

----------------------------------------------------------------------------
(* Sampled frames and registries of the monitoring loop *)

\* most blobs in a sampled frame
MaxBlobs == 2
\* most loop iterations started in one behaviour
MaxCycles == 2

hsvRed == <<5, 200, 200>>
hsvGreen == <<60, 200, 200>>
hsvBlue == <<120, 200, 200>>

\* ocr_raises: pytesseract.image_to_string raises for the crop around the blob
\* (TesseractError, or RuntimeError on a timeout)
Blob(colour, area, ocr) ==
    [hsv |-> colour, area |-> area, x |-> PadX, y |-> PadY, w |-> PadY, h |-> PadY,
     ocr |-> ocr, ocr_raises |-> FALSE]

FaultyBlob(colour, area) == [Blob(colour, area, sEmpty) EXCEPT !.ocr_raises = TRUE]

BlobSamples ==
    {Blob(c, NoiseArea + 1, t) : c \in {hsvRed, hsvGreen}, t \in {sECISPadded, sECISLoans, sBlank}}
    \cup {Blob(hsvRed, NoiseArea, sXYZ), Blob(hsvBlue, NoiseArea + 1, sXYZ)}
    \cup {FaultyBlob(c, NoiseArea + 1) : c \in {hsvRed, hsvGreen}}

RECURSIVE BlobLists(_)
BlobLists(n) ==
    IF n = 0 THEN {<<>>}
    ELSE LET shorter == BlobLists(n - 1)
         IN shorter \cup {Append(l, b) : l \in {m \in shorter : Len(m) = n - 1},
                                          b \in BlobSamples}

FrameSamples == {[W |-> 3 * PadX, H |-> 5 * PadY, blobs |-> l] : l \in BlobLists(MaxBlobs)}

sBlankNumber == <<" ">>

\* a period setting, in minutes, longer than the wait between two cycles
AlertPeriod == 60

\* a registry with one service and default recipients, and the registry
\* load_config creates when there is no file
PipelineRegistries ==
    {[default_config |-> [email |-> <<sOps>>, whatsapp |-> <<sPhone, sBlankNumber>>,
                          whatsapp_groups |-> <<>>],
      services |-> <<[name |-> sECIS,
                      cfg |-> [email |-> <<>>, whatsapp |-> <<>>,
                               whatsapp_groups |-> <<sGroupLink>>,
                               period |-> AlertPeriod, number_of_alerts |-> 1]]>>],
     DefaultRegistry}

\* service_config.json as DashboardMonitor() can find it
PersistedFiles ==
    {FileMissing, FileMalformed, FileUnreadable} \cup {FileValid(r) : r \in PipelineRegistries}

\* every notification configuration of the sampled registries
PipelineConfigs ==
    UNION {{r.default_config} \cup {r.services[i].cfg : i \in 1..Len(r.services)} :
              r \in PipelineRegistries}

\* positions of the whatsapp and whatsapp_groups lists of those configurations
NumberPositions == UNION {1..Len(c.whatsapp) : c \in PipelineConfigs}
GroupPositions == UNION {1..Len(c.whatsapp_groups) : c \in PipelineConfigs}

----------------------------------------------------------------------------
(* DashboardMonitor.monitor *)

\* DashboardMonitor.__init__: ConfigManager() runs load_config; a raise of
\* load_config leaves the constructor, and the program ends before any window
Construct ==
    /\ pc = "init"
    /\ LET loaded == load_config(config_file)
       IN /\ config' = loaded.config
          /\ config_file' = loaded.file
          /\ pc' = IF loaded.raised THEN "failed" ELSE "ui"
    /\ UNCHANGED <<variant, email_ready, camera, frame, masks, down_services, up_services,
                   di, ui, log, alerts, cycle, waited, resolverVars, rectVars,
                   clockVars, segmentVars,
                   guiVars, whatsappVars, cameraVars, formVars>>

\* start_monitoring: the selected camera was opened, the window is closed and
\* monitor() is entered
StartMonitoring ==
    /\ pc = "ui"
    /\ camera' = "open"
    /\ pc' = "capture"
    /\ UNCHANGED <<variant, config, email_ready, frame, masks, down_services, up_services,
                   di, ui, log, alerts, cycle, waited, resolverVars, rectVars,
                   storeVars, clockVars, segmentVars,
                   guiVars, whatsappVars, cameraVars, formVars>>

Running == pc \in {"capture", "backoff", "process", "extract_red", "extract_green",
                   "handle_down", "log_up", "sleep"}

\* a finally clause that leaves the camera as it is
Released_kept == camera

\* state of the camera handle after the finally clause: release_camera drops the
\* handle, monitor.py's self.camera.release() keeps the released object
Released == IF variant = "modular" THEN "none" ELSE "released"

\* a loop that logs the up services before it alerts the down ones
LoopPc_ups_first(downs, d, ups, u) ==
    IF u <= Len(ups) THEN "log_up"
    ELSE IF d <= Len(downs) THEN "handle_down"
    ELSE "sleep"

\* where the loop goes once down_services[1..d-1] and up_services[1..u-1] are done
LoopPc(downs, d, ups, u) ==
    IF d <= Len(downs) THEN "handle_down"
    ELSE IF u <= Len(ups) THEN "log_up"
    ELSE "sleep"

\* capture_frame / capture_dashboard returns a frame
CaptureOk(img) ==
    /\ pc = "capture" /\ cycle < MaxCycles /\ camera = "open"
    /\ frame' = Some(img)
    /\ pc' = "process"
    /\ masks' = NoMasks /\ down_services' = <<>> /\ up_services' = <<>>
    /\ di' = 1 /\ ui' = 1
    /\ UNCHANGED <<variant, config, email_ready, camera, log, alerts, cycle, waited,
                   resolverVars, rectVars, storeVars, clockVars, segmentVars,
                   guiVars, whatsappVars, cameraVars, formVars>>

\* dashboard_monitor.py: capture_frame returns None (read failed)
CaptureFailModular ==
    /\ variant = "modular"
    /\ pc = "capture"
    /\ frame' = None
    /\ pc' = "backoff"
    /\ masks' = NoMasks /\ down_services' = <<>> /\ up_services' = <<>>
    /\ di' = 1 /\ ui' = 1
    /\ UNCHANGED <<variant, config, email_ready, camera, log, alerts, cycle, waited,
                   resolverVars, rectVars, storeVars, clockVars, segmentVars,
                   guiVars, whatsappVars, cameraVars, formVars>>

\* monitor.py: capture_dashboard raises Exception, which monitor() does not
\* catch; the finally clause releases the camera
CaptureFailLegacy ==
    /\ variant = "legacy"
    /\ pc = "capture"
    /\ frame' = None
    /\ pc' = "crashed"
    /\ camera' = Released
    /\ masks' = NoMasks /\ down_services' = <<>> /\ up_services' = <<>>
    /\ di' = 1 /\ ui' = 1
    /\ UNCHANGED <<variant, config, email_ready, log, alerts, cycle, waited,
                   resolverVars, rectVars, storeVars, clockVars, segmentVars,
                   guiVars, whatsappVars, cameraVars, formVars>>

\* time.sleep(5); continue
BackoffSleep ==
    /\ pc = "backoff"
    /\ waited' = BackoffDelay
    /\ pc' = "capture"
    /\ UNCHANGED <<variant, config, email_ready, camera, frame, masks, down_services,
                   up_services, di, ui, log, alerts, cycle, resolverVars, rectVars, storeVars, clockVars, segmentVars,
                   guiVars, whatsappVars, cameraVars, formVars>>

\* red_mask, green_mask = process_image(image)
ProcessImage ==
    /\ pc = "process"
    /\ masks' = process_image(frame[1])
    /\ pc' = "extract_red"
    /\ UNCHANGED <<variant, config, email_ready, camera, frame, down_services,
                   up_services, di, ui, log, alerts, cycle, waited, resolverVars, rectVars, storeVars, clockVars, segmentVars,
                   guiVars, whatsappVars, cameraVars, formVars>>

\* down_services = extract_text(image, red_mask); a raise of extract_text is
\* not caught by monitor() and ends it through the finally clause
ExtractRed ==
    /\ pc = "extract_red"
    /\ IF extract_text_raises(frame[1], masks.red, variant = "modular")
       THEN down_services' = down_services /\ pc' = "crashed" /\ camera' = Released
       ELSE /\ down_services' = extract_text(frame[1], masks.red, variant = "modular")
            /\ pc' = "extract_green" /\ camera' = camera
    /\ UNCHANGED <<variant, config, email_ready, frame, masks,
                   up_services, di, ui, log, alerts, cycle, waited, resolverVars, rectVars, storeVars, clockVars, segmentVars,
                   guiVars, whatsappVars, cameraVars, formVars>>

\* up_services = extract_text(image, green_mask)
ExtractGreen ==
    /\ pc = "extract_green"
    /\ IF extract_text_raises(frame[1], masks.green, variant = "modular")
       THEN up_services' = up_services /\ pc' = "crashed" /\ camera' = Released
       ELSE /\ up_services' = extract_text(frame[1], masks.green, variant = "modular")
            /\ pc' = LoopPc(down_services, 1, up_services', 1) /\ camera' = camera
    /\ UNCHANGED <<variant, config, email_ready, frame, masks,
                   down_services, di, ui, log, alerts, cycle, waited, resolverVars, rectVars, storeVars, clockVars, segmentVars,
                   guiVars, whatsappVars, cameraVars, formVars>>

\* a dispatch that alerts a service once and stays silent afterwards
DispatchCalls_once(service, cfg) ==
    IF \E k \in 1..Len(alerts) : alerts[k].service = service
    THEN <<>>
    ELSE <<[ts |-> cycle, kind |-> "Email", service |-> service, cfg |-> cfg],
           [ts |-> cycle, kind |-> "WhatsApp", service |-> service, cfg |-> cfg]>>

\* the two dispatch calls made for a down service
DispatchCalls(service, cfg) ==
    <<[ts |-> cycle, kind |-> "Email", service |-> service, cfg |-> cfg],
      [ts |-> cycle, kind |-> "WhatsApp", service |-> service, cfg |-> cfg]>>

\* one iteration of "for service in down_services": get_service_config,
\* send_email_alert, send_whatsapp_alert. raises: the replace in
\* send_whatsapp_alert raises ValueError, which ends monitor() through its
\* finally clause after the mail row was written
HandleDown(smtp_ok, raises, okN, okG) ==
    /\ pc = "handle_down" /\ di <= Len(down_services)
    /\ LET service == down_services[di]
           cfg == get_service_config(config, service)
       IN /\ okN \subseteq Sendable(cfg)
          /\ okG \subseteq 1..Len(cfg.whatsapp_groups)
          /\ alerts' = alerts \o DispatchCalls(service, cfg)
          /\ IF raises
             THEN /\ okN = {} /\ okG = {}
                  /\ log' = log \o EmailRows(cycle, service, cfg, smtp_ok)
                  /\ pc' = "crashed"
                  /\ camera' = Released
                  /\ di' = di
             ELSE /\ log' = log \o EmailRows(cycle, service, cfg, smtp_ok)
                               \o WhatsAppRows(cycle, service, cfg, okN, okG)
                  /\ di' = di + 1
                  /\ pc' = LoopPc(down_services, di + 1, up_services, ui)
                  /\ camera' = camera
    /\ UNCHANGED <<variant, config, email_ready, frame, masks, down_services,
                   up_services, ui, cycle, waited, resolverVars, rectVars, storeVars, clockVars, segmentVars,
                   guiVars, whatsappVars, cameraVars, formVars>>

\* a log_service_status that opens the CSV file for writing instead of appending
LogUp_truncating ==
    /\ pc = "log_up" /\ ui <= Len(up_services)
    /\ log' = <<LogRow(cycle, up_services[ui], "UP", FALSE, "", <<>>)>>
    /\ ui' = ui + 1
    /\ pc' = LoopPc(down_services, di, up_services, ui + 1)
    /\ UNCHANGED <<variant, config, email_ready, camera, frame, masks, down_services,
                   up_services, di, alerts, cycle, waited, resolverVars, rectVars,
                   storeVars, clockVars, segmentVars,
                   guiVars, whatsappVars, cameraVars, formVars>>

\* a loop over the up services that also dispatches alerts for them
LogUp_alerting ==
    /\ pc = "log_up" /\ ui <= Len(up_services)
    /\ log' = Append(log, LogRow(cycle, up_services[ui], "UP", FALSE, "", <<>>))
    /\ alerts' = alerts \o DispatchCalls(up_services[ui],
                                        get_service_config(config, up_services[ui]))
    /\ ui' = ui + 1
    /\ pc' = LoopPc(down_services, di, up_services, ui + 1)
    /\ UNCHANGED <<variant, config, email_ready, camera, frame, masks, down_services,
                   up_services, di, cycle, waited, resolverVars, rectVars,
                   storeVars, clockVars, segmentVars,
                   guiVars, whatsappVars, cameraVars, formVars>>

\* one iteration of "for service in up_services": log_service_status(service, "UP", False, None, None)
LogUp ==
    /\ pc = "log_up" /\ ui <= Len(up_services)
    /\ log' = Append(log, LogRow(cycle, up_services[ui], "UP", FALSE, "", <<>>))
    /\ ui' = ui + 1
    /\ pc' = LoopPc(down_services, di, up_services, ui + 1)
    /\ UNCHANGED <<variant, config, email_ready, camera, frame, masks, down_services,
                   up_services, di, alerts, cycle, waited, resolverVars, rectVars, storeVars, clockVars, segmentVars,
                   guiVars, whatsappVars, cameraVars, formVars>>

\* time.sleep(60) at the end of the cycle
CycleSleep ==
    /\ pc = "sleep"
    /\ waited' = CycleDelay
    /\ cycle' = cycle + 1
    /\ pc' = "capture"
    /\ UNCHANGED <<variant, config, email_ready, camera, frame, masks, down_services,
                   up_services, di, ui, log, alerts, resolverVars, rectVars, storeVars, clockVars, segmentVars,
                   guiVars, whatsappVars, cameraVars, formVars>>

\* KeyboardInterrupt anywhere in the loop: caught, then the finally clause
Interrupt ==
    /\ Running
    /\ pc' = "stopped"
    /\ camera' = Released
    /\ UNCHANGED <<variant, config, email_ready, frame, masks, down_services,
                   up_services, di, ui, log, alerts, cycle, waited, resolverVars, rectVars, storeVars, clockVars, segmentVars,
                   guiVars, whatsappVars, cameraVars, formVars>>

\* the program is started: DashboardMonitor() is about to be constructed
Init ==
    /\ variant \in {"modular", "legacy"}
    /\ config_file \in PersistedFiles
    /\ config = NoConfig
    /\ email_ready \in BOOLEAN
    /\ camera = "none" /\ pc = "init"
    /\ frame = None /\ masks = NoMasks /\ down_services = <<>> /\ up_services = <<>>
    /\ di = 1 /\ ui = 1 /\ log = <<>> /\ alerts = <<>> /\ cycle = 0 /\ waited = 0
    /\ query = None /\ result = None /\ prev = NoCall /\ calls = 0
    /\ blob = [W |-> 1, H |-> 1, x |-> 0, y |-> 0, w |-> 1, h |-> 1] /\ rect = NoRect
    /\ now = Midnight /\ send_time = None /\ hsv_image = <<>> /\ colour_masks = NoColourMasks
    /\ GuiIdle /\ WhatsAppIdle /\ CameraIdle /\ FormIdle

Next ==
    \/ Construct
    \/ StartMonitoring
    \/ \E img \in FrameSamples : CaptureOk(img)
    \/ CaptureFailModular
    \/ CaptureFailLegacy
    \/ BackoffSleep
    \/ ProcessImage
    \/ ExtractRed
    \/ ExtractGreen
    \/ \E smtp_ok \in BOOLEAN, raises \in SendTimeOutcomes,
          okN \in SUBSET NumberPositions, okG \in SUBSET GroupPositions :
            HandleDown(smtp_ok, raises, okN, okG)
    \/ LogUp
    \/ CycleSleep
    \/ Interrupt

Spec == Init /\ [][Next]_vars

\* the thread that runs monitor() keeps running: capture_frame, the OCR, the
\* sends and time.sleep all return, so a step that is possible is taken
LiveSpec == Spec /\ WF_vars(Next)

----------------------------------------------------------------------------
(* Properties of the monitoring loop *)

\* the captured frame has a blob of the colour range whose area passes the
\* noise filter and whose stripped OCR text is the name
ReadFrom(lower, upper, name) ==
    /\ frame # None
    /\ \E i \in 1..Len(frame[1].blobs) :
          LET b == frame[1].blobs[i]
          IN InRange(b.hsv, lower, upper) /\ b.area > NoiseArea /\ StrStrip(b.ocr) = name

RowsOfCycle == {k \in 1..Len(log) : log[k].ts = cycle}
AlertsOfCycle == {k \in 1..Len(alerts) : alerts[k].ts = cycle}

ExtractionDone == pc \in {"handle_down", "log_up", "sleep"}

\* C2: in every cycle a name is handled as DOWN (dispatch calls, DOWN rows) only
\* if it was read from a blob of the red mask and as UP (UP row) only if it was
\* read from a blob of the green mask, and when the cycle reaches its wait every
\* name read from a red blob has its two dispatch calls and a DOWN row and every
\* name read from a green blob has an UP row, whatever the text is.
C2_StatusFollowsMask ==
    /\ \A k \in RowsOfCycle :
          /\ log[k].status \in {"DOWN", "UP"}
          /\ log[k].status = "DOWN" => ReadFrom(red_lower, red_upper, log[k].service)
          /\ log[k].status = "UP" => ReadFrom(green_lower, green_upper, log[k].service)
    /\ \A k \in AlertsOfCycle : ReadFrom(red_lower, red_upper, alerts[k].service)
    /\ pc = "sleep" =>
          \A i \in 1..Len(frame[1].blobs) :
             LET b == frame[1].blobs[i]
                 name == StrStrip(b.ocr)
             IN (b.area > NoiseArea /\ name # <<>>) =>
                  /\ InRange(b.hsv, red_lower, red_upper) =>
                        /\ \E k \in RowsOfCycle :
                              log[k].service = name /\ log[k].status = "DOWN"
                        /\ \A kind \in {"Email", "WhatsApp"} : \E k \in AlertsOfCycle :
                              alerts[k].service = name /\ alerts[k].kind = kind
                  /\ InRange(b.hsv, green_lower, green_upper) =>
                        \E k \in RowsOfCycle :
                              log[k].service = name /\ log[k].status = "UP"

\* C2 witness: a finished cycle whose frame shows the same text once next to a
\* red blob and once next to a green blob: the name has a DOWN row and an UP row.
C2_Witness ==
    /\ pc = "sleep"
    /\ \E n \in {sECIS, sECISLoans} :
          /\ ReadFrom(red_lower, red_upper, n) /\ ReadFrom(green_lower, green_upper, n)
          /\ \E k \in RowsOfCycle : log[k].service = n /\ log[k].status = "DOWN"
          /\ \E k \in RowsOfCycle : log[k].service = n /\ log[k].status = "UP"

\* the frame shows one green blob above the noise threshold with no readable text
OneGreenBlobNoText ==
    /\ frame # None /\ Len(frame[1].blobs) = 1
    /\ InRange(frame[1].blobs[1].hsv, green_lower, green_upper)
    /\ frame[1].blobs[1].area > NoiseArea
    /\ StrStrip(frame[1].blobs[1].ocr) = <<>>

\* C3: a blob whose OCR text is empty after trimming is dropped: no empty name is
\* in the down or the up list or in a log row, and a frame with one green blob
\* and no readable text gives an empty up list.
C3_EmptyTextDropped ==
    /\ \A i \in 1..Len(down_services) : down_services[i] # <<>>
    /\ \A i \in 1..Len(up_services) : up_services[i] # <<>>
    /\ \A k \in 1..Len(log) : log[k].service # <<>>
    /\ (ExtractionDone /\ OneGreenBlobNoText) => up_services = <<>> /\ down_services = <<>>

\* C3 witness: the cycle of such a frame reached its wait with an empty up list
\* and without writing a row.
C3_Witness ==
    /\ pc = "sleep" /\ OneGreenBlobNoText
    /\ up_services = <<>> /\ RowsOfCycle = {}

\* C4 as stated: a frame with one red blob whose text is "ECIS Loans", with ECIS
\* in the registry, gives down = {"ECIS"} and up = {}.
C4_CanonicalNames ==
    (/\ ExtractionDone
     /\ Len(frame[1].blobs) = 1
     /\ InRange(frame[1].blobs[1].hsv, red_lower, red_upper)
     /\ frame[1].blobs[1].area > NoiseArea
     /\ frame[1].blobs[1].ocr = sECISLoans
     /\ \E i \in 1..Len(config.services) : config.services[i].name = sECIS)
        => Range(down_services) = {sECIS} /\ up_services = <<>>

\* C5: a down service whose name equals no registry key case-insensitively is
\* resolved without ending the loop iteration: both dispatch calls are made for
\* every down service reached, under the name as it was read, and with the
\* default configuration when no key equals the name.
C5_UnmatchedGetsDefault ==
    /\ \A k \in 1..Len(alerts) :
          EqualKeys(config, alerts[k].service) = {}
              => alerts[k].cfg = config.default_config
    /\ \A k \in AlertsOfCycle : \E i \in 1..Len(down_services) :
          down_services[i] = alerts[k].service
    /\ ExtractionDone =>
          \A i \in 1..(di - 1) : \A kind \in {"Email", "WhatsApp"} :
             \E k \in AlertsOfCycle :
                alerts[k].service = down_services[i] /\ alerts[k].kind = kind

\* C5 witness: with ECIS registered, the name "ECIS Loans" was dispatched under
\* that name with the default configuration.
C5_Witness ==
    /\ config # NoConfig /\ config.services # <<>>
    /\ \E k \in AlertsOfCycle :
          /\ alerts[k].service = sECISLoans
          /\ EqualKeys(config, sECISLoans) = {}
          /\ alerts[k].cfg = config.default_config
          /\ alerts[k].cfg # EmptyDefaultConfig

\* C10 as stated: a failed capture dispatches nothing and logs nothing, does not
\* end the loop, and is followed by another capture after the back-off delay.
C10_CaptureFailureRetries ==
    [][/\ (pc = "capture" /\ pc' \notin {"capture", "stopped"} /\ frame' = None)
            => (pc' = "backoff" /\ log' = log /\ alerts' = alerts)
       /\ (pc = "backoff" /\ pc' \notin {"backoff", "stopped"})
            => (pc' = "capture" /\ waited' = BackoffDelay)]_vars

----------------------------------------------------------------------------
(* Faults inside a cycle *)

\* the contours of a mask for which pytesseract returns a text
Readable(mask) == SelectSeq(mask, LAMBDA b : ~b.ocr_raises)

\* C11 as stated: a region whose OCR fails is skipped and nothing more: the
\* extraction step of either mask goes on to the next step of the cycle with the
\* texts of the remaining regions of that mask.
C11_RegionFaultSkipped ==
    [][/\ (pc = "extract_red" /\ pc' # "stopped")
            => /\ pc' = "extract_green"
               /\ down_services' = extract_text(frame[1], Readable(masks.red),
                                                variant = "modular")
       /\ (pc = "extract_green" /\ pc' # "stopped")
            => /\ pc' \in {"handle_down", "log_up", "sleep"}
               /\ up_services' = extract_text(frame[1], Readable(masks.green),
                                              variant = "modular")]_vars

\* monitor() has returned after a KeyboardInterrupt or was left by an exception
MonitorEnded == pc \in {"stopped", "crashed"}

\* C12: whenever monitor() has ended, by the user's interrupt or by an exception
\* raised inside a cycle, the camera is released: CameraManager.camera is None in
\* dashboard_monitor.py, and in monitor.py the VideoCapture is released.
C12_CameraReleasedOnExit ==
    MonitorEnded => /\ camera # "open"
                    /\ variant = "modular" => camera = "none"

\* C12 witness: dashboard_monitor.py's monitor() was left by an exception raised
\* while a captured frame was being handled, and the camera handle is None.
C12_Witness ==
    /\ variant = "modular" /\ pc = "crashed" /\ frame # None
    /\ camera = "none"

----------------------------------------------------------------------------
(* The status log *)

IsPrefix(a, b) == Len(a) <= Len(b) /\ SubSeq(b, 1, Len(a)) = a

----------------------------------------------------------------------------
(* The persisted registry *)

\* C14 as stated: when service_config.json is missing, unreadable or malformed
\* at construction, the constructor completes with the empty registry and its
\* default configuration, to which every name resolves.
C14_FallbackToDefault ==
    [][(pc = "init" /\ pc' # "init"
          /\ config_file.kind \in {"missing", "unreadable", "malformed"})
         => /\ pc' = "ui"
            /\ config' = DefaultRegistry
            /\ \A name \in NameSamples :
                  get_service_config(config', name) = EmptyDefaultConfig]_vars

\* C15 as stated: no step of the pipeline (construction, cycles, resolving names)
\* creates, modifies or deletes service_config.json.
C15_RegistryNeverWritten == [][config_file' = config_file]_vars

\* C15 amended: the only step that touches service_config.json is the
\* construction when the file does not exist, which creates it holding the
\* default registry; an existing file is never modified or deleted, and no cycle
\* and no resolving of a name writes the file.
C15_RegistryCreatedOnlyWhenMissing ==
    [][config_file' # config_file
         => /\ pc = "init"
            /\ config_file = FileMissing
            /\ config_file' = FileValid(DefaultRegistry)]_vars

\* C15 witness: constructed from an existing registry with a service entry, the
\* pipeline has resolved and dispatched a down name and finished the cycle, and
\* the file still holds the registry that was loaded.
C15_Witness ==
    /\ pc = "sleep" /\ alerts # <<>>
    /\ config # NoConfig /\ config.services # <<>>
    /\ config_file = FileValid(config)

----------------------------------------------------------------------------
(* The results of a cycle *)

NoRepeat(names) == \A i, j \in 1..Len(names) : i # j => names[i] # names[j]

\* C17 as stated: no name is twice in the down result or twice in the up result
\* of a cycle, and a down name gets each dispatch call once in that cycle.
C17_ResultsAreSets ==
    /\ NoRepeat(down_services) /\ NoRepeat(up_services)
    /\ \A j, k \in AlertsOfCycle :
          (alerts[j].service = alerts[k].service /\ alerts[j].kind = alerts[k].kind)
              => j = k

\* C18 as stated: handling one down name never ends the loop: whatever happens
\* inside the resolving, alerting and logging of the name, the loop goes on to
\* the next down name, to the up names or to the wait before the next cycle.
C18_FaultDoesNotEndLoop ==
    [][(pc = "handle_down" /\ pc' # "stopped")
         => /\ pc' \in {"handle_down", "log_up", "sleep"}
            /\ di' = di + 1]_vars

\* C20 as stated: if no capture ever returns a frame, the monitor loop comes to
\* an end (after some number of failed captures) instead of retrying forever.
C20_CaptureFailuresEndLoop ==
    [](frame = None) => <>(pc \in {"stopped", "crashed", "failed"})

----------------------------------------------------------------------------
(* Order of the steps of a cycle *)

\* the loop ended: KeyboardInterrupt or an uncaught exception
Ended(p) == p \in {"stopped", "crashed"}

\* C21: within a cycle of monitor() the steps follow one another in the order
\* capture, segment, extract from the red mask, extract from the green mask,
\* one alert step per down service in list order, one log step per up service
\* in list order; no up service is logged before every down service was
\* handled, the cycle sleeps only after both lists are done, and a capture is
\* entered only from the start of monitoring or after the wait that ends the
\* previous cycle (60 s after a full cycle, 5 s after a failed capture).
C21_StepsInOrder ==
    [][/\ pc = "capture" /\ pc' # pc => pc' \in {"process", "backoff"} \/ Ended(pc')
       /\ pc = "process" /\ pc' # pc => pc' = "extract_red" \/ Ended(pc')
       /\ pc = "extract_red" /\ pc' # pc => pc' = "extract_green" \/ Ended(pc')
       /\ pc = "extract_green" /\ pc' # pc =>
              pc' \in {"handle_down", "log_up", "sleep"} \/ Ended(pc')
       /\ pc = "handle_down" /\ ~Ended(pc') /\ <<pc, di>>' # <<pc, di>> =>
              /\ pc' \in {"handle_down", "log_up", "sleep"}
              /\ di' = di + 1 /\ ui' = 1 /\ down_services' = down_services
       /\ pc = "log_up" /\ ~Ended(pc') /\ <<pc, ui>>' # <<pc, ui>> =>
              /\ pc' \in {"log_up", "sleep"}
              /\ ui' = ui + 1 /\ di' = di /\ up_services' = up_services
       /\ pc = "sleep" /\ pc' # pc => pc' = "capture" \/ Ended(pc')
       /\ pc = "backoff" /\ pc' # pc => pc' = "capture" \/ Ended(pc')
       /\ pc' = "handle_down" => di' <= Len(down_services') /\ ui' = 1
       /\ pc' = "log_up" => di' = Len(down_services') + 1 /\ ui' <= Len(up_services')
       /\ pc' = "sleep" =>
              di' = Len(down_services') + 1 /\ ui' = Len(up_services') + 1
       /\ pc' = "capture" /\ pc # "capture" =>
              \/ pc = "ui"
              \/ pc = "sleep" /\ waited' = CycleDelay /\ cycle' = cycle + 1
              \/ pc = "backoff" /\ waited' = BackoffDelay
       /\ cycle' # cycle => pc = "sleep" /\ pc' = "capture"]_vars

\* the second cycle has run all its steps: a down service was alerted and an up
\* service logged after it, and the first cycle's wait has elapsed
C21_Witness ==
    /\ pc = "sleep" /\ cycle = 1 /\ waited = CycleDelay
    /\ down_services # <<>> /\ up_services # <<>>
    /\ \E i, j \in RowsOfCycle :
           i < j /\ log[i].status = "DOWN" /\ log[j].status = "UP"
    /\ \A i, j \in RowsOfCycle :
           log[i].status = "DOWN" /\ log[j].status = "UP" => i < j

----------------------------------------------------------------------------
(* A cycle is a function of its frame and the registry *)

\* a dispatch call without its time
CallOf(a) == [kind |-> a.kind, service |-> a.service, cfg |-> a.cfg]

\* the dispatch calls of the current cycle, in order, without their times
CallsOfCycle ==
    LET mine == SelectSeq(alerts, LAMBDA a : a.ts = cycle)
    IN [k \in 1..Len(mine) |-> CallOf(mine[k])]

\* the calls that a list of down names requires under a registry
RECURSIVE CallsFor(_, _)
CallsFor(cfg, names) ==
    IF names = <<>> THEN <<>>
    ELSE <<[kind |-> "Email", service |-> Head(names),
            cfg |-> get_service_config(cfg, Head(names))],
           [kind |-> "WhatsApp", service |-> Head(names),
            cfg |-> get_service_config(cfg, Head(names))]>>
         \o CallsFor(cfg, Tail(names))

\* C24: the down and up results of a cycle are what extraction gives for that
\* cycle's frame, and the dispatch calls made so far in the cycle are the email
\* and WhatsApp calls for the down names handled so far under the current
\* registry, whatever the log, the earlier alerts and the number of earlier
\* cycles are; so a service that is down again is alerted again, whatever its
\* period and number_of_alerts settings.
C24_CycleDependsOnFrameAndRegistry ==
    ExtractionDone =>
        /\ down_services = extract_text(frame[1], process_image(frame[1]).red,
                                        variant = "modular")
        /\ up_services = extract_text(frame[1], process_image(frame[1]).green,
                                      variant = "modular")
        /\ CallsOfCycle = CallsFor(config, SubSeq(down_services, 1, di - 1))

\* a service limited to one alert per period was alerted in the first cycle
\* and again, with the same calls, in the second
C24_Witness ==
    /\ pc = "sleep" /\ cycle = 1
    /\ \E i \in 1..Len(down_services) :
         LET cfg == get_service_config(config, down_services[i])
         IN /\ "number_of_alerts" \in DOMAIN cfg
            /\ cfg.number_of_alerts = 1 /\ cfg.period * 60 > CycleDelay
            /\ \A kind \in {"Email", "WhatsApp"}, ts \in {0, 1} :
                 \E k \in 1..Len(alerts) :
                     alerts[k] = [ts |-> ts, kind |-> kind,
                                  service |-> down_services[i], cfg |-> cfg]

----------------------------------------------------------------------------
(* Alerts are dispatched for down services only *)

\* names read only from the green mask in the current cycle
UpOnly == Range(up_services) \ Range(down_services)

\* C27: every dispatch call of a cycle is for a name of that cycle's down
\* result; a name that is only in the up result has no dispatch call in the
\* cycle, and every row written for it is an UP row with alert_sent false, no
\* alert type and no recipients, as is every UP row of the log.
C27_AlertsOnlyForDown ==
    /\ \A k \in AlertsOfCycle : alerts[k].service \in Range(down_services)
    /\ \A name \in UpOnly :
         /\ \A k \in AlertsOfCycle : alerts[k].service # name
         /\ \A k \in RowsOfCycle : log[k].service = name => log[k].status = "UP"
    /\ \A k \in 1..Len(log) :
         log[k].status = "UP" =>
             /\ log[k].alert_sent = FALSE
             /\ log[k].alert_type = "" /\ log[k].recipients = <<>>

\* a cycle with a down and an up service has finished: the down one was
\* alerted, the up one was logged and not alerted
C27_Witness ==
    /\ pc = "sleep"
    /\ \E k \in AlertsOfCycle : alerts[k].service \in Range(down_services)
    /\ \E name \in UpOnly :
         /\ \E k \in RowsOfCycle : log[k].service = name /\ log[k].status = "UP"
         /\ \A k \in 1..Len(alerts) : alerts[k].service # name

----------------------------------------------------------------------------
(* The rectangle around an indicator dot *)

Abs(n) == IF n < 0 THEN 0 - n ELSE n

\* floor(1.4 * w) in exact arithmetic
Floor1p4(w) == (14 * w) \div 10

\* the part of the rectangle r that lies in a W x H frame
IntersectFrame(r, W, H) ==
    [x1 |-> IMax(0, r.x1), y1 |-> IMax(0, r.y1), x2 |-> IMin(W, r.x2), y2 |-> IMin(H, r.y2)]

\* the rectangle of an accepted dot is 2h high, starts at the dot's top edge,
\* is centred within one pixel of x + w/2, and is cropped to the frame
DotRectPlaced ==
    rect.dot # None =>
        LET raw == DetectServicesRaw(blob.x, blob.y, blob.w, blob.h)
        IN /\ raw.y2 - raw.y1 = 2 * blob.h
           /\ raw.y1 = blob.y
           /\ Abs((raw.x1 + raw.x2) - (2 * blob.x + blob.w)) <= 2
           /\ rect.dot[1] = IntersectFrame(raw, blob.W, blob.H)

\* C25: for every blob accepted by detect_services the rectangle before
\* clamping is floor(1.4 * w) wide and 2h high, has top edge y and a horizontal
\* centre within one pixel of x + w/2, and the cropped rectangle is its
\* intersection with the frame.
C25_DotRectangle ==
    /\ DotRectPlaced
    /\ rect.dot # None =>
         LET raw == DetectServicesRaw(blob.x, blob.y, blob.w, blob.h)
         IN raw.x2 - raw.x1 = Floor1p4(blob.w)

----------------------------------------------------------------------------
(* The two contour filters *)

\* extract_text reads a contour iff its area is above 100 px, and
\* detect_services reads one iff its area is at least 50 px and its bounding
\* box has a width/height ratio in [0.9, 1.1]
FiltersAsCoded ==
    /\ rect.text_area # None => (rect.text # None <=> rect.text_area[1] > 100)
    /\ rect.dot_area # None =>
         (rect.dot # None <=> /\ rect.dot_area[1] >= 50
                              /\ 9 * blob.h <= 10 * blob.w
                              /\ 10 * blob.w <= 11 * blob.h)

\* C26: extract_text reads a contour iff its area is above 100 px,
\* detect_services reads one iff its area passes the circle filter's minimum
\* and its bounding-box ratio lies in [0.9, 1.1], and every contour that
\* detect_services reads has an area above 100 px.
C26_CircleFilterStricter ==
    /\ FiltersAsCoded
    /\ rect.dot # None => rect.dot_area[1] > 100

\* C26, amended: the two filters are as stated, with 50 px as the circle
\* filter's minimum, and the circle filter is not the stricter one in area: it
\* reads every nearly square contour of 50 to 100 px, which extract_text skips.
C26_FiltersIndependent ==
    /\ FiltersAsCoded
    /\ rect.dot_area # None /\ rect.text_area = rect.dot_area
       /\ AspectIsCircle(blob.w, blob.h)
       /\ rect.dot_area[1] \in 50..100
         => rect.dot # None /\ rect.text = None

\* a nearly square contour of 50 px went through both loops: read by
\* detect_services, skipped by extract_text
C26_Witness ==
    /\ rect.dot_area = Some(CircleMinArea) /\ rect.text_area = Some(CircleMinArea)
    /\ rect.dot # None /\ rect.text = None

----------------------------------------------------------------------------
(* MonitoringGUI: the Start/Stop button and its monitor_loop threads *)

\* clicks on the Start/Stop button the harness makes
MaxClicks == 4

\* the variables of the monitoring loop and of the earlier harnesses, at rest
LoopIdle ==
    /\ email_ready = FALSE /\ camera = "none" /\ pc = "idle"
    /\ frame = None /\ masks = NoMasks /\ down_services = <<>> /\ up_services = <<>>
    /\ di = 1 /\ ui = 1 /\ log = <<>> /\ alerts = <<>> /\ cycle = 0 /\ waited = 0
    /\ query = None /\ result = None /\ prev = NoCall /\ calls = 0
    /\ blob = [W |-> 1, H |-> 1, x |-> 0, y |-> 0, w |-> 1, h |-> 1] /\ rect = NoRect
    /\ send_time = None /\ hsv_image = <<>> /\ colour_masks = NoColourMasks

\* the Tk main loop's thread and the t-th thread started on monitor_loop
UiThread == [runs |-> "mainloop", n |-> 0]
LoopThread(t) == [runs |-> "monitor_loop", n |-> t]

\* threads that have not left "while self.is_monitoring"
Alive == {t \in 1..Len(threads) : threads[t] # "exited"}

\* start_monitoring: the button handler. Start sets the flag and starts a
\* thread on monitor_loop; Stop clears the flag. Both configure the button
\* and the status bar.
ToggleMonitoring ==
    /\ clicks < MaxClicks
    /\ clicks' = clicks + 1
    /\ IF ~is_monitoring
       THEN is_monitoring' = TRUE /\ threads' = Append(threads, "test")
       ELSE is_monitoring' = FALSE /\ threads' = threads
    /\ widget_writers' = widget_writers \cup {UiThread}
    /\ UNCHANGED <<update_queue, ui_calls, config, pipelineVars, resolverVars, rectVars,
                   storeVars, clockVars, segmentVars, whatsappVars, cameraVars, formVars>>

\* monitor_loop: "while self.is_monitoring", evaluated by thread t
LoopTest(t) ==
    /\ t \in 1..Len(threads) /\ threads[t] = "test"
    /\ threads' = [threads EXCEPT ![t] = IF is_monitoring THEN "body" ELSE "exited"]
    /\ UNCHANGED <<is_monitoring, clicks, widget_writers, update_queue, ui_calls, config,
                   pipelineVars, resolverVars, rectVars, storeVars, clockVars,
                   segmentVars, whatsappVars, cameraVars, formVars>>

\* monitor_loop, the try block run by thread t: self.monitor is monitor.py's
\* DashboardMonitor, which has no capture_frame, so the call raises
\* AttributeError and the except clause configures the status bar
LoopBody(t) ==
    /\ t \in 1..Len(threads) /\ threads[t] = "body"
    /\ widget_writers' = widget_writers \cup {LoopThread(t)}
    /\ threads' = [threads EXCEPT ![t] = "sleep"]
    /\ UNCHANGED <<is_monitoring, clicks, update_queue, ui_calls, config,
                   pipelineVars, resolverVars, rectVars, storeVars, clockVars,
                   segmentVars, whatsappVars, cameraVars, formVars>>

\* monitor_loop: time.sleep(1) returns
LoopSleep(t) ==
    /\ t \in 1..Len(threads) /\ threads[t] = "sleep"
    /\ threads' = [threads EXCEPT ![t] = "test"]
    /\ UNCHANGED <<is_monitoring, clicks, widget_writers, update_queue, ui_calls, config,
                   pipelineVars, resolverVars, rectVars, storeVars, clockVars,
                   segmentVars, whatsappVars, cameraVars, formVars>>

\* process_image: the Process Image button handler, on the UI thread. It
\* configures the status bar and calls self.monitor.capture_frame() without
\* looking at is_monitoring.
ProcessImageClick ==
    /\ widget_writers' = widget_writers \cup {UiThread}
    /\ ui_calls' = (ui_calls \/ Alive # {})
    /\ UNCHANGED <<is_monitoring, threads, clicks, update_queue, config,
                   pipelineVars, resolverVars, rectVars, storeVars, clockVars,
                   segmentVars, whatsappVars, cameraVars, formVars>>

\* MonitoringGUI.__init__ has run
InitGui ==
    /\ GuiIdle /\ WhatsAppIdle /\ CameraIdle /\ FormIdle
    /\ LoopIdle /\ variant = "legacy" /\ now = Midnight
    /\ config = DefaultRegistry /\ config_file = FileValid(config)

NextGui ==
    \/ ToggleMonitoring
    \/ \E t \in 1..MaxClicks : LoopTest(t)
    \/ \E t \in 1..MaxClicks : LoopBody(t)
    \/ \E t \in 1..MaxClicks : LoopSleep(t)
    \/ ProcessImageClick

SpecGui == InitGui /\ [][NextGui]_vars

\* C22: under any sequence of Start/Stop clicks at most one monitor_loop
\* thread is inside the loop body at any time.
C22_AtMostOneLoop ==
    Cardinality({t \in 1..Len(threads) : threads[t] = "body"}) <= 1

\* C23: a monitor_loop thread passes what it has to the UI only through the
\* update queue and configures or draws on no widget itself, and the UI thread
\* makes no capture call on the monitor while a loop thread is alive.
C23_ThreadsKeepToTheirSide ==
    /\ widget_writers \subseteq {UiThread}
    /\ ~ui_calls

----------------------------------------------------------------------------
(* AlertManager.send_whatsapp_alert, one call *)

sPhonePadded == <<" ","+","4","4","7"," ">>
sGroupLink2 == <<"h","t","t","p","s",":","/","/","c","h","a","t","/","G","2">>

\* the whatsapp and whatsapp_groups lists tried
NumberLists == {<<>>, <<sPhone>>, <<sBlankNumber, sPhone>>, <<sPhone, sPhonePadded>>}
GroupLists == {<<>>, <<sGroupLink>>, <<sGroupLink, sGroupLink2>>}

WhatsAppConfigs ==
    {[email |-> <<>>, whatsapp |-> ns, whatsapp_groups |-> gs] :
        ns \in NumberLists, gs \in GroupLists}

\* "for number in config.get('whatsapp', [])": the calls of
\* pywhatkit.sendwhatmsg made from position i on; a blank entry is skipped, a
\* call that raises is caught and the loop goes on
RECURSIVE NumberAttempts(_, _)
NumberAttempts(numbers, i) ==
    IF i > Len(numbers) THEN <<>>
    ELSE IF StrStrip(numbers[i]) = <<>> THEN NumberAttempts(numbers, i + 1)
    ELSE <<[list |-> "whatsapp", i |-> i, to |-> StrStrip(numbers[i])]>>
         \o NumberAttempts(numbers, i + 1)

\* "for group_link in config.get('whatsapp_groups', [])": the calls of
\* pywhatkit.sendwhatmsg_to_group made from position i on
RECURSIVE GroupAttempts(_, _)
GroupAttempts(groups, i) ==
    IF i > Len(groups) THEN <<>>
    ELSE <<[list |-> "whatsapp_groups", i |-> i, to |-> LastSegment(groups[i])]>>
         \o GroupAttempts(groups, i + 1)

\* send_whatsapp_alert(service_name, cfg) called at the given minute, when the
\* sends to the numbers at positions okN and the groups at positions okG
\* succeed and the others raise
send_whatsapp_alert(service_name, cfg, minute, okN, okG) ==
    IF SendTimeRaises(minute)
    THEN [raised |-> TRUE, attempts |-> <<>>, rows |-> <<>>, returned |-> None]
    ELSE [raised |-> FALSE,
          attempts |-> NumberAttempts(cfg.whatsapp, 1) \o GroupAttempts(cfg.whatsapp_groups, 1),
          rows |-> WhatsAppRows(0, service_name, cfg, okN, okG),
          returned |-> Some(okN \cup okG # {})]

\* one call of send_whatsapp_alert for a down service
SendWhatsAppAlert(cfg, okN, okG) ==
    /\ wa_call = None
    /\ okN \subseteq Sendable(cfg)
    /\ okG \subseteq 1..Len(cfg.whatsapp_groups)
    /\ SendTimeRaises(now.minute) => okN = {} /\ okG = {}
    /\ wa_call' = Some([cfg |-> cfg, okN |-> okN, okG |-> okG,
                        did |-> send_whatsapp_alert(sECIS, cfg, now.minute, okN, okG)])
    /\ UNCHANGED <<config, pipelineVars, resolverVars, rectVars, storeVars, clockVars,
                   segmentVars, guiVars, cameraVars, formVars>>

InitWhatsApp ==
    /\ now \in [hour : {0}, minute : 0..MaxMinute]
    /\ GuiIdle /\ WhatsAppIdle /\ CameraIdle /\ FormIdle
    /\ LoopIdle /\ variant = "modular"
    /\ config = DefaultRegistry /\ config_file = FileValid(config)

NextWhatsApp ==
    \E cfg \in WhatsAppConfigs, okN, okG \in SUBSET (1..2) : SendWhatsAppAlert(cfg, okN, okG)

SpecWhatsApp == InitWhatsApp /\ [][NextWhatsApp]_vars

\* number of attempts made for entry i of a list
TimesTried(did, list, i) ==
    Cardinality({k \in 1..Len(did.attempts) :
                    did.attempts[k].list = list /\ did.attempts[k].i = i})

\* what the claim says of a call that was made
RecipientsTriedAndLogged(c) ==
    /\ \A i \in Sendable(c.cfg) : TimesTried(c.did, "whatsapp", i) = 1
    /\ \A i \in 1..Len(c.cfg.whatsapp_groups) :
         StrStrip(c.cfg.whatsapp_groups[i]) # <<>> => TimesTried(c.did, "whatsapp_groups", i) = 1
    /\ Len(c.did.rows) = 1
    /\ c.did.rows[1].status = "DOWN" /\ c.did.rows[1].alert_type = "WhatsApp"
    /\ c.did.rows[1].alert_sent <=> (c.okN \cup c.okG # {})
    /\ c.did.rows[1].recipients = StrJoin(sCommaSpace, WhatsAppRecipients(c.cfg, c.okN, c.okG))

\* C28: in send_whatsapp_alert a failed send does not stop the attempts to the
\* other numbers and groups: every configured non-blank recipient is attempted
\* exactly once, and the DOWN row logged afterwards has alert_sent true iff at
\* least one send succeeded and lists exactly the recipients whose send succeeded.
C28_EveryRecipientTried ==
    wa_call # None => RecipientsTriedAndLogged(wa_call[1])

----------------------------------------------------------------------------
(* CameraManager: initialize_camera, capture_frame, release_camera *)

\* VideoCapture objects the harness lets initialize_camera create
MaxOpens == 4

\* the handles still open after release_camera()
AfterRelease == IF cm_camera = None THEN open_handles ELSE open_handles \ {cm_camera[1].id}

\* an initialize_camera that does not release the camera it holds
InitializeCamera_no_release(outcome) ==
    /\ capture_result' = "unset"
    /\ IF outcome = "invalid"
       THEN UNCHANGED <<cm_camera, open_handles, created>>
       ELSE IF outcome = "raises"
       THEN cm_camera' = cm_camera /\ UNCHANGED <<open_handles, created>>
       ELSE /\ Len(created) < MaxOpens
            /\ created' = Append(created, outcome)
            /\ cm_camera' = Some([id |-> Len(created) + 1, opened |-> (outcome = "opened")])
            /\ open_handles' = IF outcome = "opened"
                               THEN open_handles \cup {Len(created) + 1}
                               ELSE open_handles
    /\ UNCHANGED <<config, pipelineVars, resolverVars, rectVars, storeVars, clockVars,
                   segmentVars, guiVars, whatsappVars, formVars>>

\* initialize_camera(camera_id_or_string). invalid: the string names no
\* camera, and the call returns before anything is released; raises:
\* cv2.VideoCapture raises, after the release; opened / not_opened: the new
\* VideoCapture object is assigned and isOpened() answers True / False
InitializeCamera(outcome) ==
    /\ capture_result' = "unset"
    /\ IF outcome = "invalid"
       THEN UNCHANGED <<cm_camera, open_handles, created>>
       ELSE IF outcome = "raises"
       THEN cm_camera' = None /\ open_handles' = AfterRelease /\ created' = created
       ELSE /\ Len(created) < MaxOpens
            /\ created' = Append(created, outcome)
            /\ cm_camera' = Some([id |-> Len(created) + 1, opened |-> (outcome = "opened")])
            /\ open_handles' = IF outcome = "opened"
                               THEN AfterRelease \cup {Len(created) + 1}
                               ELSE AfterRelease
    /\ UNCHANGED <<config, pipelineVars, resolverVars, rectVars, storeVars, clockVars,
                   segmentVars, guiVars, whatsappVars, formVars>>

\* capture_frame(): None when no camera is held or it is not open, else what
\* read() gives
CaptureFrame(read_ok) ==
    /\ capture_result' = IF cm_camera = None \/ ~cm_camera[1].opened THEN "None"
                         ELSE IF read_ok THEN "frame" ELSE "None"
    /\ UNCHANGED <<cm_camera, open_handles, created, config, pipelineVars, resolverVars,
                   rectVars, storeVars, clockVars, segmentVars, guiVars, whatsappVars,
                   formVars>>

\* release_camera()
ReleaseCamera ==
    /\ cm_camera' = None
    /\ open_handles' = AfterRelease
    /\ capture_result' = "unset"
    /\ UNCHANGED <<created, config, pipelineVars, resolverVars, rectVars, storeVars,
                   clockVars, segmentVars, guiVars, whatsappVars, formVars>>

\* CameraManager() has been constructed
InitCamera ==
    /\ GuiIdle /\ WhatsAppIdle /\ CameraIdle /\ FormIdle
    /\ LoopIdle /\ variant = "modular" /\ now = Midnight
    /\ config = DefaultRegistry /\ config_file = FileValid(config)

NextCamera ==
    \/ \E outcome \in {"invalid", "raises", "opened", "not_opened"} : InitializeCamera(outcome)
    \/ \E read_ok \in BOOLEAN : CaptureFrame(read_ok)
    \/ ReleaseCamera

SpecCamera == InitCamera /\ [][NextCamera]_vars

\* CameraManager holds an open camera
HoldsOpenCamera == cm_camera # None /\ cm_camera[1].opened

\* C29: across any sequence of initialize_camera, capture_frame and
\* release_camera calls at most one VideoCapture object is open, and it is the
\* one CameraManager holds: every object opened by an earlier initialize_camera
\* was released before a later one was opened; and a capture_frame call made
\* while no open camera is held returns None.
C29_OneOpenHandle ==
    /\ Cardinality(open_handles) <= 1
    /\ open_handles = IF HoldsOpenCamera THEN {cm_camera[1].id} ELSE {}
    /\ capture_result \in {"unset", "None", "frame"}
    /\ capture_result # "unset" /\ ~HoldsOpenCamera => capture_result = "None"

\* two cameras were opened one after the other, the second was released, and
\* capture_frame then returned None
C29_Witness ==
    /\ Len(created) >= 2 /\ created[1] = "opened" /\ created[2] = "opened"
    /\ ~HoldsOpenCamera /\ open_handles = {} /\ capture_result = "None"

----------------------------------------------------------------------------
(* AlertConfigUI.save_service *)

\* s.split(sep)
RECURSIVE SplitOn(_, _)
SplitOn(s, sep) ==
    LET at == {i \in 1..Len(s) : s[i] = sep}
    IN IF at = {} THEN <<s>>
       ELSE <<SubSeq(s, 1, SetMin(at) - 1)>> \o SplitOn(SubSeq(s, SetMin(at) + 1, Len(s)), sep)

\* [e.strip() for e in text.split(',') if e.strip()]
StrippedParts(text) ==
    LET parts == SplitOn(text, ",")
    IN SelectSeq([i \in 1..Len(parts) |-> StrStrip(parts[i])], LAMBDA part : part # <<>>)

DigitValue(ch) == CHOOSE d \in 0..9 : <<"0","1","2","3","4","5","6","7","8","9">>[d + 1] = ch

RECURSIVE DigitsValue(_)
DigitsValue(digits) ==
    IF digits = <<>> THEN 0
    ELSE 10 * DigitsValue(SubSeq(digits, 1, Len(digits) - 1)) + DigitValue(digits[Len(digits)])

\* int(text): surrounding whitespace is allowed, anything but decimal digits
\* raises ValueError (the form's sample texts carry no sign)
ParseInt(text) ==
    LET t == StrStrip(text)
    IN IF t # <<>> /\ Range(t) \subseteq DigitChars
       THEN [raised |-> FALSE, value |-> DigitsValue(t)]
       ELSE [raised |-> TRUE, value |-> 0]

\* the keys of the services dict, and its operations
Names(services) == {services[i].name : i \in 1..Len(services)}
Entry(services, name) == (CHOOSE i \in 1..Len(services) : services[i].name = name)
ServiceOf(services, name) == services[Entry(services, name)].cfg
SetService(services, name, cfg) ==
    IF name \in Names(services)
    THEN [services EXCEPT ![Entry(services, name)].cfg = cfg]
    ELSE Append(services, [name |-> name, cfg |-> cfg])
DelService(services, name) == SelectSeq(services, LAMBDA en : en.name # name)

\* d.update(changes) on one service entry
DictUpdate(d, changes) ==
    [k \in DOMAIN d \cup DOMAIN changes |-> IF k \in DOMAIN changes THEN changes[k] ELSE d[k]]

\* the entry save_service creates for a new service
NewServiceEntry ==
    [email |-> <<>>, whatsapp |-> <<>>, whatsapp_groups |-> <<>>,
     period |-> 0, number_of_alerts |-> 0]

\* save_service of alert_config_ui.py: registry and file afterwards
save_service_modular(registry, file, f) ==
    LET new_name == StrStrip(f.name)
        old_name == IF f.is_new_service THEN None ELSE f.current_service
        services == registry.services
        moved == IF old_name # None /\ old_name[1] # <<>> /\ old_name[1] \in Names(services)
                 THEN LET copied == SetService(services, new_name, ServiceOf(services, old_name[1]))
                      IN IF old_name[1] # new_name THEN DelService(copied, old_name[1])
                         ELSE copied
                 ELSE SetService(services, new_name, NewServiceEntry)
        period == IF StrStrip(f.period) = <<>> \/ ParseInt(f.period).raised THEN 0
                  ELSE ParseInt(f.period).value
        number_of_alerts ==
            IF StrStrip(f.number_of_alerts) = <<>> \/ ParseInt(f.number_of_alerts).raised THEN 0
            ELSE ParseInt(f.number_of_alerts).value
        updated == SetService(moved, new_name,
                      DictUpdate(ServiceOf(moved, new_name),
                                 [email |-> StrippedParts(f.email),
                                  whatsapp |-> StrippedParts(f.whatsapp),
                                  whatsapp_groups |-> StrippedParts(f.whatsapp_groups),
                                  period |-> period, number_of_alerts |-> number_of_alerts]))
        saved == [registry EXCEPT !.services = updated]
    IN IF new_name = <<>>
       THEN [config |-> registry, file |-> file, raised |-> FALSE]
       ELSE [config |-> saved, file |-> FileValid(saved), raised |-> FALSE]

\* save_service of monitor.py: no test of the name, int() outside any try
save_service_legacy(registry, file, f) ==
    LET new_name == StrStrip(f.name)
        old_name == IF f.is_new_service THEN None ELSE f.current_service
        services == registry.services
        moved == IF old_name # None /\ old_name[1] # <<>>
                 THEN LET copied == SetService(services, new_name, ServiceOf(services, old_name[1]))
                      IN IF old_name[1] # new_name THEN DelService(copied, old_name[1])
                         ELSE copied
                 ELSE SetService(services, new_name, NewServiceEntry)
        updated == SetService(moved, new_name,
                      DictUpdate(ServiceOf(moved, new_name),
                                 [email |-> StrippedParts(f.email),
                                  whatsapp |-> StrippedParts(f.whatsapp),
                                  whatsapp_groups |-> StrippedParts(f.whatsapp_groups),
                                  period |-> ParseInt(f.period).value,
                                  number_of_alerts |-> ParseInt(f.number_of_alerts).value]))
        saved == [registry EXCEPT !.services = updated]
    IN IF ParseInt(f.period).raised \/ ParseInt(f.number_of_alerts).raised
       THEN [config |-> [registry EXCEPT !.services = moved], file |-> file, raised |-> TRUE]
       ELSE [config |-> saved, file |-> FileValid(saved), raised |-> FALSE]

save_service(registry, file, f) ==
    IF variant = "modular" THEN save_service_modular(registry, file, f)
    ELSE save_service_legacy(registry, file, f)

sTwoAddresses == sOps \o <<",", " ", ",", " ">> \o sXYZ
sSixty == <<"6","0">>
sOne == <<" ","1">>
sNotANumber == <<"x">>

\* registries the form is opened on
FormRegistries ==
    {[default_config |-> EmptyDefaultConfig,
      services |-> <<[name |-> sECIS, cfg |-> ServiceCfg(sECIS)],
                     [name |-> sBTSS, cfg |-> DictUpdate(NewServiceEntry, ServiceCfg(sBTSS))]>>],
     [default_config |-> EmptyDefaultConfig,
      services |-> <<[name |-> sIVSS, cfg |-> NewServiceEntry]>>]}

\* texts typed into the form's fields
FormNames == {sECIS, sBTSS, sXYZ, sECISPadded, sEmpty, sBlank}
FormFields ==
    [name : FormNames, email : {sEmpty, sTwoAddresses}, whatsapp : {sEmpty, sPhone},
     whatsapp_groups : {sEmpty, sGroupLink}, period : {sEmpty, sSixty, sNotANumber},
     number_of_alerts : {sOne, sEmpty}]

NoForm == None

\* add_new_service or load_service(current), the user edits the fields, then
\* the Save button runs save_service
SaveService(current, fields) ==
    /\ form = NoForm
    /\ current # None => current[1] \in Names(config.services)
    /\ LET f == [current_service |-> current, is_new_service |-> (current = None),
                 name |-> fields.name, email |-> fields.email, whatsapp |-> fields.whatsapp,
                 whatsapp_groups |-> fields.whatsapp_groups, period |-> fields.period,
                 number_of_alerts |-> fields.number_of_alerts]
           after == save_service(config, config_file, f)
       IN /\ config' = after.config
          /\ config_file' = after.file
          /\ form' = Some([call |-> f, before |-> config, before_file |-> config_file,
                           raised |-> after.raised])
    /\ UNCHANGED <<pipelineVars, resolverVars, rectVars, clockVars, segmentVars,
                   guiVars, whatsappVars, cameraVars>>

\* the alert configuration window is open on a loaded registry
InitForm ==
    /\ variant \in {"modular", "legacy"}
    /\ config \in FormRegistries /\ config_file = FileValid(config)
    /\ GuiIdle /\ WhatsAppIdle /\ CameraIdle /\ FormIdle
    /\ LoopIdle /\ now = Midnight

NextForm ==
    \E current \in {None} \cup {Some(n) : n \in {sECIS, sBTSS, sIVSS}}, fields \in FormFields :
        SaveService(current, fields)

SpecForm == InitForm /\ [][NextForm]_vars

\* the number a field's text stands for: 0 when it is blank or not a number
FieldNumber(text) == IF ParseInt(text).raised THEN 0 ELSE ParseInt(text).value

\* the call renamed an existing service: the registry has the new name with
\* the form's values and not the old name, and the other entries are as before
RenameDone(f, before, after) ==
    LET old == f.current_service[1]
        new == StrStrip(f.name)
    IN /\ new \in Names(after)
       /\ old \notin Names(after)
       /\ ServiceOf(after, new).email = StrippedParts(f.email)
       /\ ServiceOf(after, new).whatsapp = StrippedParts(f.whatsapp)
       /\ ServiceOf(after, new).whatsapp_groups = StrippedParts(f.whatsapp_groups)
       /\ ServiceOf(after, new).period = FieldNumber(f.period)
       /\ ServiceOf(after, new).number_of_alerts = FieldNumber(f.number_of_alerts)
       /\ Names(after) \ {new} = Names(before) \ {old, new}
       /\ \A n \in Names(after) \ {new} : ServiceOf(after, n) = ServiceOf(before, n)

IsRename(f, before) ==
    /\ ~f.is_new_service /\ f.current_service[1] \in Names(before)
    /\ StrStrip(f.name) # <<>> /\ StrStrip(f.name) # f.current_service[1]

\* C30: after save_service on an existing service whose name was changed in
\* the form, the registry has the new name with the form's values, no longer
\* has the old name, and every other entry is unchanged; after save_service
\* with an empty name the registry and the persisted file are as before.
C30_RenameMovesEntry ==
    form # None =>
        LET c == form[1]
        IN /\ IsRename(c.call, c.before.services)
              => RenameDone(c.call, c.before.services, config.services)
           /\ StrStrip(c.call.name) = <<>>
              => config = c.before /\ config_file = c.before_file

====
